---- MODULE Spec2Model ----
(***************************************************************************)
(* mcp-add: one server descriptor is written into the configuration files  *)
(* of several client applications.  The model covers the orchestration     *)
(* loop of main (src/src/index.js), the nine client adapters whose source  *)
(* is present (claude desktop, claude code, cursor, windsurf, vscode,      *)
(* opencode, continue, goose, codex), the file formats they read and       *)
(* write, and the file system they act on.  The two registered adapters    *)
(* whose source is absent (gemini, copilot cli) run as JSON map adapters.  *)
(*                                                                         *)
(* Values.  A JavaScript value in memory is a tagged record:               *)
(*   [t |-> "undef"], [t |-> "null"], [t |-> "bool", b], [t |-> "num", n], *)
(*   [t |-> "str", s], [t |-> "obj", m], [t |-> "arr", a, p]               *)
(* where m is the sequence of own properties [k, v] in the order           *)
(* Object.keys reports them, a the elements and p the named (non-index)    *)
(* properties of an array.                                                 *)
(*                                                                         *)
(* Text.  The content of a file is a record                                *)
(*   [lead, root, trail, closed, junk, nl]                                 *)
(* root is the syntax tree of the text ([t |-> "none"] when the text holds *)
(* no value); an object node lists its members [k, v, f] in textual order, *)
(* a comment being a member with key "//"; f is "canon" when the line of   *)
(* the member is laid out as the writer of the tool lays it out and        *)
(* "custom" otherwise.  lead and trail are the comments before and after   *)
(* the root, closed is FALSE for a text that ends before its last bracket, *)
(* junk is TRUE for a text holding tokens that are no value, nl is the     *)
(* final newline.  Two texts are byte-identical iff the records are equal. *)
(***************************************************************************)
EXTENDS Integers, Sequences, FiniteSets, TLC

\* ------------------------------------------------------------------ bounds
\* longest list of selected clients of one run
MaxSelected == 2
\* most entries of a container in an initial file
MaxEntries == 3

\* ------------------------------------------------------------ JS values
Undef == [t |-> "undef"]
Null == [t |-> "null"]
Bool(b) == [t |-> "bool", b |-> b]
Num(n) == [t |-> "num", n |-> n]
Str(s) == [t |-> "str", s |-> s]
Obj(m) == [t |-> "obj", m |-> m]
Arr(a) == [t |-> "arr", a |-> a, p |-> <<>>]
P(k, v) == [k |-> k, v |-> v]

\* canonical array-index property names ("0", "1", ...) and their values
IndexKeys == {"0", "1", "2"}
KeyNum(k) == CASE k = "0" -> 0 [] k = "1" -> 1 [] k = "2" -> 2 [] OTHER -> -1
IsIndexKey(k) == k \in IndexKeys

\* ToBoolean
Truthy(v) ==
  CASE v.t = "undef" -> FALSE
    [] v.t = "null" -> FALSE
    [] v.t = "bool" -> v.b
    [] v.t = "num" -> v.n # 0
    [] v.t = "str" -> v.s # ""
    [] OTHER -> TRUE

\* position of key k in a member sequence, 0 when absent (first match)
RECURSIVE FindFrom(_, _, _)
FindFrom(m, k, i) ==
  IF i > Len(m) THEN 0
  ELSE IF m[i].k = k THEN i
  ELSE FindFrom(m, k, i + 1)
FindKey(m, k) == FindFrom(m, k, 1)

Keys(m) == [i \in 1..Len(m) |-> m[i].k]

\* where a new property k goes in an ordinary object: integer-like keys come
\* first in ascending numeric order, every other key in insertion order
RECURSIVE IndexSlot(_, _, _)
IndexSlot(m, k, i) ==
  IF i > Len(m) THEN i
  ELSE IF IsIndexKey(m[i].k) /\ KeyNum(m[i].k) < KeyNum(k) THEN IndexSlot(m, k, i + 1)
  ELSE i
InsertAt(s, i, x) == SubSeq(s, 1, i - 1) \o <<x>> \o SubSeq(s, i, Len(s))

\* CreateDataProperty on the own properties of an ordinary object
PropsDefine(m, k, v) ==
  LET i == FindKey(m, k) IN
  IF i > 0 THEN [m EXCEPT ![i] = P(k, v)]
  ELSE IF IsIndexKey(k) THEN InsertAt(m, IndexSlot(m, k, 1), P(k, v))
  ELSE Append(m, P(k, v))
\* [[Set]], the assignment o[k] = v.  An object that has no own property
\* "__proto__" inherits the accessor of Object.prototype: the assignment
\* calls that setter, which changes the prototype (ignoring a value that is
\* no object) and creates no own property, so that nothing of it is
\* serialized.
PropsSet(m, k, v) ==
  IF k = "__proto__" /\ FindKey(m, k) = 0 THEN m ELSE PropsDefine(m, k, v)
\* o[k]: a property read; CanRead is FALSE where the read throws a TypeError
CanRead(o) == o.t \notin {"undef", "null"}
GetProp(o, k) ==
  CASE o.t = "obj" -> (IF FindKey(o.m, k) > 0 THEN o.m[FindKey(o.m, k)].v ELSE Undef)
    [] o.t = "arr" ->
         IF IsIndexKey(k)
         THEN (IF KeyNum(k) < Len(o.a) THEN o.a[KeyNum(k) + 1] ELSE Undef)
         ELSE (IF FindKey(o.p, k) > 0 THEN o.p[FindKey(o.p, k)].v ELSE Undef)
    [] OTHER -> Undef

\* o[k] = v in strict mode (the sources are ES modules), v an object.
\* WriteError is the message of what the assignment throws, "" when it
\* throws nothing: a TypeError on null and undefined; on a primitive a
\* TypeError too (a string has its length and its characters as read-only
\* properties), but for the key "__proto__", whose inherited setter
\* returns without doing anything; on an array a RangeError for the key
\* "length", which takes numbers only.
WriteError(o, k) ==
  CASE o.t = "undef" -> "Cannot set properties of undefined"
    [] o.t = "null" -> "Cannot set properties of null"
    [] o.t = "obj" -> ""
    [] o.t = "arr" -> IF k = "length" THEN "Invalid array length" ELSE ""
    [] o.t = "str" /\ (k = "length" \/ (IsIndexKey(k) /\ KeyNum(k) < Len(o.s))) ->
         "Cannot assign to read only property"
    [] OTHER -> IF k = "__proto__" THEN "" ELSE "Cannot create property"
CanWrite(o, k) == WriteError(o, k) = ""
RECURSIVE Holes(_)
Holes(n) == IF n <= 0 THEN <<>> ELSE <<Undef>> \o Holes(n - 1)
\* the object after an assignment that does not throw: an array takes an
\* element for an index and a named property, which no serializer writes,
\* for any other key; a primitive stays as it is
SetProp(o, k, v) ==
  CASE o.t = "obj" -> [o EXCEPT !.m = PropsSet(o.m, k, v)]
    [] o.t = "arr" ->
         IF IsIndexKey(k)
         THEN (IF KeyNum(k) < Len(o.a)
               THEN [o EXCEPT !.a[KeyNum(k) + 1] = v]
               ELSE [o EXCEPT !.a = o.a \o Holes(KeyNum(k) - Len(o.a)) \o <<v>>])
         ELSE [o EXCEPT !.p = PropsSet(o.p, k, v)]
    [] OTHER -> o

\* ------------------------------------------------------------ file text
NoRoot == [t |-> "none"]
M(k, v, f) == [k |-> k, v |-> v, f |-> f]
ObjNode(m) == [t |-> "obj", m |-> m]
ArrNode(a) == [t |-> "arr", a |-> a]
IsComment(mem) == mem.k = "//"
Text(lead, root, trail, closed, junk, nl) ==
  [k |-> "text", lead |-> lead, root |-> root, trail |-> trail,
   closed |-> closed, junk |-> junk, nl |-> nl]
Absent == [k |-> "absent"]
\* a file of zero bytes
EmptyText == Text(<<>>, NoRoot, <<>>, TRUE, FALSE, FALSE)
Exists(file) == file.k = "text"

RECURSIVE HasCommentNode(_)
HasCommentNode(n) ==
  CASE n.t = "obj" ->
         \E i \in 1..Len(n.m) : IsComment(n.m[i]) \/ HasCommentNode(n.m[i].v)
    [] n.t = "arr" -> \E i \in 1..Len(n.a) : HasCommentNode(n.a[i])
    [] OTHER -> FALSE
HasComments(x) == x.lead # <<>> \/ x.trail # <<>> \/ HasCommentNode(x.root)

\* the value a tree denotes: comments dropped, properties created in textual
\* order on an ordinary object (a repeated key keeps its first place and its
\* last value)
RECURSIVE ParseWith(_, _)
RECURSIVE ParseMembers(_, _, _, _)
ParseMembers(m, i, acc, assigns) ==
  IF i > Len(m) THEN acc
  ELSE IF IsComment(m[i]) THEN ParseMembers(m, i + 1, acc, assigns)
  ELSE ParseMembers(m, i + 1,
         IF assigns THEN PropsSet(acc, m[i].k, ParseWith(m[i].v, assigns))
         ELSE PropsDefine(acc, m[i].k, ParseWith(m[i].v, assigns)),
         assigns)
ParseWith(n, assigns) ==
  CASE n.t = "obj" -> Obj(ParseMembers(n.m, 1, <<>>, assigns))
    [] n.t = "arr" -> Arr([i \in 1..Len(n.a) |-> ParseWith(n.a[i], assigns)])
    [] n.t = "none" -> Undef
    [] OTHER -> n
\* JSON.parse, YAML.parse, TOML.parse: every member of the text becomes an
\* own property
ParseNode(n) == ParseWith(n, FALSE)
\* jsonc.parse: the members are assigned (currentParent[name] = value)
ParseJsonc(n) == ParseWith(n, TRUE)

\* JSON.stringify(v, null, 2) and YAML.stringify(v) as a tree: own
\* properties in Object.keys order, undefined properties omitted, named
\* properties of arrays omitted, holes and undefined elements written null
RECURSIVE StringifyNode(_)
RECURSIVE StringifyMembers(_, _)
StringifyMembers(m, i) ==
  IF i > Len(m) THEN <<>>
  ELSE IF m[i].v.t = "undef" THEN StringifyMembers(m, i + 1)
  ELSE <<M(m[i].k, StringifyNode(m[i].v), "canon")>> \o StringifyMembers(m, i + 1)
StringifyNode(v) ==
  CASE v.t = "obj" -> ObjNode(StringifyMembers(v.m, 1))
    [] v.t = "arr" -> ArrNode([i \in 1..Len(v.a) |-> StringifyNode(v.a[i])])
    [] v.t = "undef" -> Null
    [] OTHER -> v

\* JSON.stringify(existing_config, null, 2) + '\n'
JsonStringify(v) == Text(<<>>, StringifyNode(v), <<>>, TRUE, FALSE, TRUE)
\* YAML.stringify(existing_config)
YamlStringify(v) == Text(<<>>, StringifyNode(v), <<>>, TRUE, FALSE, TRUE)

\* TOML.stringify: in every table the keys holding no table come first, the
\* sub-tables after them; null and undefined values are skipped
IsTable(v) == v.t = "obj"
RECURSIVE TomlNode(_)
RECURSIVE TomlMembers(_, _, _)
TomlMembers(m, i, tables) ==
  IF i > Len(m) THEN <<>>
  ELSE IF m[i].v.t \in {"undef", "null"} \/ IsTable(m[i].v) # tables
       THEN TomlMembers(m, i + 1, tables)
  ELSE <<M(m[i].k, TomlNode(m[i].v), "canon")>> \o TomlMembers(m, i + 1, tables)
TomlNode(v) ==
  CASE v.t = "obj" -> ObjNode(TomlMembers(v.m, 1, FALSE) \o TomlMembers(v.m, 1, TRUE))
    [] v.t = "arr" -> ArrNode([i \in 1..Len(v.a) |-> TomlNode(v.a[i])])
    [] OTHER -> v
TomlStringify(v) == Text(<<>>, TomlNode(v), <<>>, TRUE, FALSE, TRUE)

\* what the strict parsers accept
JsonValid(x) == x.root.t # "none" /\ x.closed /\ ~x.junk /\ ~HasComments(x)
YamlValid(x) == x.closed /\ ~x.junk
TomlValid(x) == x.closed /\ ~x.junk /\ x.root.t \in {"none", "obj"}

EmptyObj == Obj(<<>>)

\* ---------------------------------------------------------- descriptors
\* MCPServerConfig: LocalServerConfig | RemoteServerConfig
Local(name, command, args, env) ==
  [name |-> name, type |-> "stdio", command |-> command, args |-> args, env |-> env]
Remote(name, url, headers) ==
  [name |-> name, type |-> "http", url |-> url, headers |-> headers]

\* config.<f> as a value: undefined when the descriptor has no such field
StrArr(ss) == Arr([i \in 1..Len(ss) |-> Str(ss[i])])
Field(config, f) ==
  IF f \notin DOMAIN config THEN Undef
  ELSE IF f = "args" THEN StrArr(config[f])
  ELSE IF f \in {"env", "headers"} THEN Obj(config[f])
  ELSE Str(config[f])
\* config.env && Object.keys(config.env).length > 0
NonEmptyMap(config, f) == f \in DOMAIN config /\ Len(config[f]) > 0
\* config.args || []
ArgsOrEmpty(config) == IF "args" \in DOMAIN config THEN StrArr(config.args) ELSE Arr(<<>>)
\* result.<key> = config.<f>, attached only when the mapping is non-empty
Optional(config, f, key) ==
  IF NonEmptyMap(config, f) THEN <<P(key, Field(config, f))>> ELSE <<>>

ClaudeTransform(config) ==
  IF config.type = "stdio"
  THEN Obj(<<P("command", Field(config, "command")), P("args", ArgsOrEmpty(config))>>
           \o Optional(config, "env", "env"))
  ELSE Obj(<<P("url", Field(config, "url"))>> \o Optional(config, "headers", "headers"))

ClaudeCodeTransform(config) ==
  IF config.type = "stdio"
  THEN Obj(<<P("command", Field(config, "command")), P("args", ArgsOrEmpty(config)),
             P("type", Str(config.type))>> \o Optional(config, "env", "env"))
  ELSE Obj(<<P("url", Field(config, "url")), P("type", Str(config.type))>>
           \o Optional(config, "headers", "headers"))

CursorTransform(config) ==
  IF config.type = "stdio"
  THEN Obj(<<P("command", Field(config, "command")), P("args", ArgsOrEmpty(config))>>
           \o Optional(config, "env", "env"))
  ELSE Obj(<<P("url", Field(config, "url")), P("transport", Str("sse"))>>
           \o Optional(config, "headers", "headers"))

WindsurfTransform(config) ==
  IF config.type = "local"
  THEN Obj(<<P("command", Field(config, "command")), P("args", ArgsOrEmpty(config))>>
           \o Optional(config, "env", "env"))
  ELSE Obj(<<P("serverUrl", Field(config, "url"))>> \o Optional(config, "headers", "headers"))

VscodeTransform(config) ==
  IF config.type = "stdio"
  THEN Obj(<<P("type", Str("stdio")), P("command", Field(config, "command")),
             P("args", ArgsOrEmpty(config))>> \o Optional(config, "env", "env"))
  ELSE Obj(<<P("type", Str("http")), P("url", Field(config, "url"))>>
           \o Optional(config, "headers", "headers"))

CodexTransform(config) ==
  IF config.type = "local"
  THEN Obj(<<P("command", Field(config, "command")), P("args", ArgsOrEmpty(config))>>
           \o Optional(config, "env", "env"))
  ELSE Obj(<<P("url", Field(config, "url"))>> \o Optional(config, "headers", "http_headers"))

ContinueTransform(config) ==
  IF config.type = "stdio"
  THEN Obj(<<P("name", Str(config.name)), P("type", Str("stdio")),
             P("command", Field(config, "command")), P("args", ArgsOrEmpty(config))>>
           \o Optional(config, "env", "env"))
  ELSE Obj(<<P("name", Str(config.name)), P("type", Str(config.type)),
             P("url", Field(config, "url"))>> \o Optional(config, "headers", "headers"))

GooseTransform(config) ==
  IF config.type = "stdio"
  THEN Obj(<<P("name", Str(config.name)), P("cmd", Field(config, "command")),
             P("args", ArgsOrEmpty(config)), P("enabled", Bool(TRUE)),
             P("type", Str("stdio")), P("timeout", Num(300))>>
           \o Optional(config, "env", "envs"))
  ELSE Obj(<<P("name", Str(config.name)), P("type", Str("streamable_http")),
             P("url", Field(config, "url")), P("enabled", Bool(TRUE)),
             P("timeout", Num(300))>> \o Optional(config, "headers", "headers"))

\* command and args merged into one array
OpencodeTransform(config) ==
  IF config.type = "stdio"
  THEN Obj(<<P("type", Str("local")),
             P("command", StrArr(<<config.command>> \o config.args)),
             P("enabled", Bool(TRUE))>> \o Optional(config, "env", "environment"))
  ELSE Obj(<<P("type", Str("remote")), P("url", Field(config, "url")),
             P("enabled", Bool(TRUE))>> \o Optional(config, "headers", "headers"))

\* the entry of the two registered adapters whose source is absent
\* (copilot cli, gemini): the fields of the descriptor under their own
\* names, env and headers when not empty
RegisteredTransform(config) ==
  IF config.type = "stdio"
  THEN Obj(<<P("command", Field(config, "command")), P("args", ArgsOrEmpty(config))>>
           \o Optional(config, "env", "env"))
  ELSE Obj(<<P("url", Field(config, "url"))>> \o Optional(config, "headers", "headers"))

\* the adapters of the registry whose source is present
ModelClients ==
  {"claude desktop", "claude code", "cursor", "continue", "windsurf",
   "opencode", "vscode", "goose", "codex"}
\* clients: the registry.  Two of its adapters have no source: they are run
\* as the others are, as JSON files holding a mapping "mcpServers".
clients == ModelClients \cup {"copilot cli", "gemini"}

transform_config(c, config) ==
  CASE c = "claude desktop" -> ClaudeTransform(config)
    [] c = "claude code" -> ClaudeCodeTransform(config)
    [] c = "cursor" -> CursorTransform(config)
    [] c = "windsurf" -> WindsurfTransform(config)
    [] c = "vscode" -> VscodeTransform(config)
    [] c = "codex" -> CodexTransform(config)
    [] c = "continue" -> ContinueTransform(config)
    [] c = "goose" -> GooseTransform(config)
    [] c = "opencode" -> OpencodeTransform(config)
    [] c \in {"copilot cli", "gemini"} -> RegisteredTransform(config)

\* per adapter: the file format, the container key and the container shape
Format(c) ==
  CASE c \in {"continue", "goose"} -> "yaml"
    [] c = "codex" -> "toml"
    [] c = "opencode" -> "jsonc"
    [] OTHER -> "json"
ContainerKey(c) ==
  CASE c = "vscode" -> "servers"
    [] c = "goose" -> "extensions"
    [] c = "codex" -> "mcp_servers"
    [] c = "opencode" -> "mcp"
    [] OTHER -> "mcpServers"
IsList(c) == c = "continue"

\* ------------------------------------------------------------ the state
VARIABLES
  platform,          \* process.platform / os.platform()
  env,               \* process.env: HOME, USERPROFILE, APPDATA, XDG_CONFIG_HOME
  passwd,            \* the home directory the system records for the user
  cwd,               \* the working directory of the process
  files,             \* the files that exist: resolved path -> text
  dirs,              \* the directories that exist
  nomkdir,           \* missing directories that mkdirSync cannot create
  wfault,            \* files whose write fails: resolved path -> "eacces" | "enospc"
  argv,              \* the flags yargs parsed, but --clients
  argv_clients,      \* parse_comma_separated(argv.clients)
  input,             \* locals of main: name, type, command, args, env, url, ...
  prompts,           \* history: every prompt the run has issued
  config,            \* the descriptor handed to every adapter
  is_global,         \* scope === 'global'
  selected_clients,  \* the list the loop runs over
  results,           \* the results list of main
  idx,               \* position of the loop in selected_clients
  pc,                \* where the run stands
  frame,             \* the adapter invocation in progress: its locals
  log                \* history: every file-system call of the adapters
vars ==
  <<platform, env, passwd, cwd, files, dirs, nomkdir, wfault, argv, argv_clients, input,
    prompts, config, is_global, selected_clients, results, idx, pc, frame, log>>

\* ---------------------------------------------------------------- paths
\* A path is [abs, segs]; the empty string is the relative path of no segment.
EmptyPath == [abs |-> FALSE, segs |-> <<>>]
AbsPath(segs) == [abs |-> TRUE, segs |-> segs]
\* process.env.X of a variable the environment does not have: undefined.
\* Also: the home directory of a user the system has no record of.
Unset == [unset |-> TRUE]
\* process.env.X is truthy: neither undefined nor the empty string
IsSet(p) == p # Unset /\ p # EmptyPath
\* process.env.X || ''
OrEmpty(p) == IF IsSet(p) THEN p ELSE EmptyPath
\* path.join(p, ...segs) and path.dirname(p)
PathJoin(p, segs) == [abs |-> p.abs, segs |-> p.segs \o segs]
Dirname(p) == [abs |-> p.abs, segs |-> SubSeq(p.segs, 1, Len(p.segs) - 1)]
\* the file a path names: relative paths are taken from the working directory
Resolve(p) == IF p.abs THEN p.segs ELSE cwd.segs \o p.segs

\* os.homedir(): the value of the environment's variable when it has the
\* variable, an empty value included (every path joined to it is then
\* relative to the working directory); else the directory the system
\* records for the user.  Where it records none the call throws: the
\* operator is Unset there.
PasswdHome == AbsPath(<<"home", "u">>)
os_homedir ==
  IF platform = "win32"
  THEN (IF env.USERPROFILE # Unset THEN env.USERPROFILE ELSE passwd)
  ELSE (IF env.HOME # Unset THEN env.HOME ELSE passwd)
\* os.homedir() throws (uv_os_homedir: ENOENT)
HomedirThrows == os_homedir = Unset

FileAt(p) == IF p \in DOMAIN files THEN files[p] ELSE Absent
existsSync(p) == Resolve(p) \in DOMAIN files \/ Resolve(p) \in dirs

ClaudePath ==
  IF platform = "darwin"
  THEN PathJoin(os_homedir,
         <<"Library", "Application Support", "Claude", "claude_desktop_config.json">>)
  ELSE IF platform = "win32"
  THEN PathJoin(IF IsSet(env.APPDATA) THEN env.APPDATA
                ELSE PathJoin(os_homedir, <<"AppData", "Roaming">>),
                <<"Claude", "claude_desktop_config.json">>)
  ELSE PathJoin(os_homedir, <<".config", "claude", "claude_desktop_config.json">>)

ClaudeCodePath(g) ==
  IF g THEN PathJoin(os_homedir, <<".claude.json">>) ELSE PathJoin(cwd, <<".mcp.json">>)

\* variant: the project file of Cursor is the one of Claude Code
CursorPathShared(g) ==
  IF g THEN PathJoin(os_homedir, <<".cursor", "mcp.json">>)
  ELSE PathJoin(cwd, <<".mcp.json">>)

CursorPath(g) ==
  IF g THEN PathJoin(os_homedir, <<".cursor", "mcp.json">>)
  ELSE PathJoin(cwd, <<".cursor", "mcp.json">>)

WindsurfPath == PathJoin(os_homedir, <<".codeium", "windsurf", "mcp_config.json">>)

get_vscode_user_data_dir ==
  LET home == IF IsSet(env.HOME) THEN env.HOME ELSE OrEmpty(env.USERPROFILE) IN
  IF platform = "darwin"
  THEN PathJoin(home, <<"Library", "Application Support", "Code", "User">>)
  ELSE IF platform = "win32" THEN PathJoin(OrEmpty(env.APPDATA), <<"Code", "User">>)
  ELSE PathJoin(home, <<".config", "Code", "User">>)
VscodePath(g) ==
  IF g THEN PathJoin(get_vscode_user_data_dir, <<"mcp.json">>)
  ELSE PathJoin(cwd, <<".vscode", "mcp.json">>)

OpencodeBase(g) ==
  IF g
  THEN PathJoin(IF IsSet(env.XDG_CONFIG_HOME) THEN env.XDG_CONFIG_HOME
                ELSE PathJoin(os_homedir, <<".config">>), <<"opencode">>)
  ELSE cwd
\* variant: the plain file is preferred when it exists
OpencodePathPrefersJson(g) ==
  IF existsSync(PathJoin(OpencodeBase(g), <<"opencode.json">>))
       \/ ~existsSync(PathJoin(OpencodeBase(g), <<"opencode.jsonc">>))
  THEN PathJoin(OpencodeBase(g), <<"opencode.json">>)
  ELSE PathJoin(OpencodeBase(g), <<"opencode.jsonc">>)
OpencodePath(g) ==
  IF existsSync(PathJoin(OpencodeBase(g), <<"opencode.jsonc">>))
  THEN PathJoin(OpencodeBase(g), <<"opencode.jsonc">>)
  ELSE PathJoin(OpencodeBase(g), <<"opencode.json">>)

ContinuePath(g) ==
  IF g THEN PathJoin(os_homedir, <<".continue", "config.yaml">>)
  ELSE PathJoin(cwd, <<".continue", "config.yaml">>)

GoosePath == PathJoin(os_homedir, <<".config", "goose", "config.yaml">>)

CodexPath == PathJoin(os_homedir, <<".codex", "config.toml">>)

\* Gemini CLI, whose adapter is registered but whose source is absent: the
\* two paths the table of supported clients gives for it
GeminiPath(g) ==
  IF g THEN PathJoin(os_homedir, <<".gemini", "settings.json">>)
  ELSE PathJoin(cwd, <<".gemini", "settings.json">>)

\* Copilot CLI, registered, its source absent and its file documented
\* nowhere: a file of its own under the home directory stands for it
CopilotCliPath == PathJoin(os_homedir, <<".copilot", "mcp-config.json">>)

\* whether get_config_path of adapter c calls os.homedir() (operands of ||
\* are evaluated only when needed)
CallsHomedir(c, g) ==
  CASE c = "claude desktop" -> platform # "win32" \/ ~IsSet(env.APPDATA)
    [] c \in {"claude code", "cursor", "continue", "gemini"} -> g
    [] c \in {"windsurf", "goose", "codex", "copilot cli"} -> TRUE
    [] c = "opencode" -> g /\ ~IsSet(env.XDG_CONFIG_HOME)
    [] c = "vscode" -> FALSE
\* get_config_path throws: every adapter calls it ahead of its try block.
\* process.cwd() does not throw there: a run started in a removed
\* directory ends in main before a flag is read (yargs reads the working
\* directory when it is constructed), and the value read is kept.
PathThrows(c, g) == CallsHomedir(c, g) /\ HomedirThrows

\* the path get_config_path returns when it does not throw
get_config_path(c, g) ==
  CASE c = "claude desktop" -> ClaudePath
    [] c = "claude code" -> ClaudeCodePath(g)
    [] c = "cursor" -> CursorPath(g)
    [] c = "windsurf" -> WindsurfPath
    [] c = "vscode" -> VscodePath(g)
    [] c = "opencode" -> OpencodePath(g)
    [] c = "continue" -> ContinuePath(g)
    [] c = "goose" -> GoosePath
    [] c = "codex" -> CodexPath
    [] c = "gemini" -> GeminiPath(g)
    [] c = "copilot cli" -> CopilotCliPath

\* ----------------------------------------------------------------- load
ReadJson(file) ==
  IF Exists(file) /\ JsonValid(file) THEN ParseNode(file.root) ELSE EmptyObj
\* parsed || {}
ReadYaml(file) ==
  IF Exists(file) /\ YamlValid(file) /\ Truthy(ParseNode(file.root))
  THEN ParseNode(file.root) ELSE EmptyObj
ReadToml(file) ==
  IF Exists(file) /\ TomlValid(file) /\ file.root.t = "obj"
  THEN ParseNode(file.root) ELSE EmptyObj
\* jsonc.parse is fault tolerant: it returns what it could read of any text
\* and does not throw; the text itself is returned beside it
BaselineText == Text(<<>>, ObjNode(<<>>), <<>>, TRUE, FALSE, FALSE)
ReadJsonc(file) ==
  IF Exists(file)
  THEN [content |-> file,
        config |-> IF Truthy(ParseJsonc(file.root)) THEN ParseJsonc(file.root) ELSE EmptyObj]
  ELSE [content |-> BaselineText, config |-> EmptyObj]

\* read_config of adapter c: the document and, for opencode, the text
read_config(c, file) ==
  CASE Format(c) = "json" -> [content |-> Absent, config |-> ReadJson(file)]
    [] Format(c) = "yaml" -> [content |-> Absent, config |-> ReadYaml(file)]
    [] Format(c) = "toml" -> [content |-> Absent, config |-> ReadToml(file)]
    [] Format(c) = "jsonc" -> ReadJsonc(file)

\* --------------------------------------------------------------- upsert
\* the outcome of a step that may throw
Ok(x) == [ok |-> TRUE, val |-> x]
Fail(msg) == [ok |-> FALSE, msg |-> msg]

\* if (!existing_config[key]) existing_config[key] = baseline
Bootstrap(mem, key, baseline) ==
  IF ~CanRead(mem) THEN Fail("Cannot read properties of null")
  ELSE IF Truthy(GetProp(mem, key)) THEN Ok(mem)
  ELSE IF ~CanWrite(mem, key) THEN Fail(WriteError(mem, key))
  ELSE Ok(SetProp(mem, key, baseline))

\* mapping-by-name: container[config.name] = entry, the container being a
\* reference into the document
MapUpsert(c, mem, cfg) ==
  LET key == ContainerKey(c)
      b == Bootstrap(mem, key, EmptyObj)
  IN IF ~b.ok THEN b
     ELSE LET cont == GetProp(b.val, key) IN
          IF ~CanWrite(cont, cfg.name) THEN Fail(WriteError(cont, cfg.name))
          ELSE Ok(SetProp(b.val, key, SetProp(cont, cfg.name, transform_config(c, cfg))))

\* mcp_servers.findIndex((server) => server.name === config.name):
\* the index found (from 1), 0 when none, -1 when an element cannot be read
RECURSIVE FindIndexByName(_, _, _)
FindIndexByName(a, name, i) ==
  IF i > Len(a) THEN 0
  ELSE IF ~CanRead(a[i]) THEN -1
  ELSE IF GetProp(a[i], "name") = Str(name) THEN i
  ELSE FindIndexByName(a, name, i + 1)

\* variant: the new element is always pushed
ListUpsertPush(c, mem, cfg) ==
  LET key == ContainerKey(c)
      b == Bootstrap(mem, key, Arr(<<>>))
  IN IF ~b.ok THEN b
     ELSE LET cont == GetProp(b.val, key) IN
          IF cont.t # "arr" THEN Fail("mcp_servers.findIndex is not a function")
          ELSE Ok(SetProp(b.val, key,
                          [cont EXCEPT !.a = Append(cont.a, transform_config(c, cfg))]))

\* list-with-name-field: replace the first element of that name in place,
\* else push
ListUpsert(c, mem, cfg) ==
  LET key == ContainerKey(c)
      b == Bootstrap(mem, key, Arr(<<>>))
  IN IF ~b.ok THEN b
     ELSE LET cont == GetProp(b.val, key) IN
          IF cont.t # "arr" THEN Fail("mcp_servers.findIndex is not a function")
          ELSE LET i == FindIndexByName(cont.a, cfg.name, 1)
                   new_server == transform_config(c, cfg)
               IN IF i < 0 THEN Fail("Cannot read properties of null")
                  ELSE IF i > 0
                  THEN Ok(SetProp(b.val, key, [cont EXCEPT !.a[i] = new_server]))
                  ELSE Ok(SetProp(b.val, key, [cont EXCEPT !.a = Append(cont.a, new_server)]))

\* TOML.stringify refuses arrays holding null or undefined
RECURSIVE TomlRefuses(_)
TomlRefuses(v) ==
  CASE v.t = "obj" -> \E i \in 1..Len(v.m) : TomlRefuses(v.m[i].v)
    [] v.t = "arr" ->
         \E i \in 1..Len(v.a) : v.a[i].t \in {"undef", "null"} \/ TomlRefuses(v.a[i])
    [] OTHER -> FALSE

\* the text handed to writeFileSync by the adapters that re-serialize
Serialize(c, mem) ==
  CASE Format(c) = "json" -> Ok(JsonStringify(mem))
    [] Format(c) = "yaml" -> Ok(YamlStringify(mem))
    [] Format(c) = "toml" ->
         IF TomlRefuses(mem) THEN Fail("arrays cannot contain null or undefined values")
         ELSE Ok(TomlStringify(mem))

\* ------------------------------------------------- jsonc.modify + applyEdits
\* findNodeAtLocation: the node at a path of keys (first member of each
\* name), NoRoot when there is none
RECURSIVE FindNode(_, _)
FindNode(node, path) ==
  IF path = <<>> THEN node
  ELSE IF node.t # "obj" \/ FindKey(node.m, Head(path)) = 0 THEN NoRoot
  ELSE FindNode(node.m[FindKey(node.m, Head(path))].v, Tail(path))

\* index of the last property of an object node (comments are no property)
RECURSIVE LastProp(_, _)
LastProp(m, i) == IF i = 0 THEN 0 ELSE IF ~IsComment(m[i]) THEN i ELSE LastProp(m, i - 1)

\* set member k of an object node: an existing value is replaced where it
\* stands; a new property goes right after the last property, and the
\* formatter then lays out afresh the line that received the insertion,
\* which is the line of that last property
MemberSet(node, k, valnode) ==
  LET i == FindKey(node.m, k)
      j == LastProp(node.m, Len(node.m))
  IN IF i > 0 THEN [node EXCEPT !.m[i].v = valnode]
     ELSE IF j = 0 THEN [node EXCEPT !.m = <<M(k, valnode, "canon")>> \o node.m]
     ELSE [node EXCEPT !.m = InsertAt([node.m EXCEPT ![j].f = "canon"], j + 1,
                                      M(k, valnode, "canon"))]

\* the member set inside the object at location front; an insertion into an
\* object without properties lays out afresh the line of its opening brace,
\* which is the line of the member holding that object
RECURSIVE SetIn(_, _, _, _)
SetIn(node, front, k, valnode) ==
  IF front = <<>> THEN MemberSet(node, k, valnode)
  ELSE LET i == FindKey(node.m, Head(front))
           child == node.m[i].v
           fresh == Len(front) = 1 /\ FindKey(child.m, k) = 0
                    /\ LastProp(child.m, Len(child.m)) = 0
       IN [node EXCEPT !.m[i].v = SetIn(child, Tail(front), k, valnode),
                       !.m[i].f = IF fresh THEN "canon" ELSE @]

\* setProperty(text, path, value, {formattingOptions}) applied to the text
RECURSIVE SetProperty(_, _, _)
SetProperty(x, path, value) ==
  LET last == path[Len(path)]
      front == SubSeq(path, 1, Len(path) - 1)
      parent == FindNode(x.root, front)
  IN IF parent.t = "none"
     THEN IF front = <<>>
          THEN Ok([x EXCEPT !.root = StringifyNode(Obj(<<P(last, value)>>)),
                            !.lead = <<>>, !.trail = x.lead \o x.trail])
          ELSE SetProperty(x, front, Obj(<<P(last, value)>>))
     ELSE IF parent.t = "obj"
     THEN Ok([x EXCEPT !.root = SetIn(x.root, front, last, StringifyNode(value))])
     ELSE Fail("Can not add index to parent")

SchemaUrl == Str("https://opencode.ai/config.json")

\* variant: the container is set ahead of the schema marker
OpencodeEditsMcpFirst(content, existing_config, cfg) ==
  LET e1 == IF ~Truthy(GetProp(existing_config, "mcp"))
            THEN SetProperty(content, <<"mcp">>, EmptyObj) ELSE Ok(content)
      e2 == IF ~e1.ok THEN e1
            ELSE IF ~Truthy(GetProp(existing_config, "$schema"))
            THEN SetProperty(e1.val, <<"$schema">>, SchemaUrl) ELSE e1
      e3 == IF ~e2.ok THEN e2
            ELSE SetProperty(e2.val, <<"mcp", cfg.name>>, transform_config("opencode", cfg))
  IN e3

\* the three edits of add_to_opencode, each applied to the text the previous
\* one produced; existing_config is the document parsed from the original
OpencodeEdits(content, existing_config, cfg) ==
  LET e1 == IF ~Truthy(GetProp(existing_config, "$schema"))
            THEN SetProperty(content, <<"$schema">>, SchemaUrl) ELSE Ok(content)
      e2 == IF ~e1.ok THEN e1
            ELSE IF ~Truthy(GetProp(existing_config, "mcp"))
            THEN SetProperty(e1.val, <<"mcp">>, EmptyObj) ELSE e1
      e3 == IF ~e2.ok THEN e2
            ELSE SetProperty(e2.val, <<"mcp", cfg.name>>, transform_config("opencode", cfg))
  IN e3
\* new_content + (new_content.endsWith('\n') ? '' : '\n')
WithFinalNewline(x) == [x EXCEPT !.nl = TRUE]

\* ------------------------------------------------------------ the run
\* variant: the id is looked up as it was typed
LowerKeeps(id) == id

\* String.prototype.toLowerCase on the ids the model draws: those of the
\* registry, which are in lower case, the same in other letter cases, and
\* ids the registry does not have
Lower(id) ==
  CASE id = "Cursor" -> "cursor"
    [] id = "CODEX" -> "codex"
    [] id = "Gemini" -> "gemini"
    [] id = "VSCode" -> "vscode"
    [] id = "Claude Code" -> "claude code"
    [] OTHER -> id
\* client_names.includes(c.toLowerCase())
Registered(id) == Lower(id) \in clients

\* an exception raised inside the try block of an adapter reaches its catch
Throw(msg) == pc' = "catch" /\ frame' = [frame EXCEPT !.exc = msg]

LogOp(op, path, data) ==
  log' = Append(log, [inv |-> Len(results) + 1, turn |-> idx, client |-> frame.client,
                      op |-> op, path |-> path, data |-> data])

\* ------------------------------------------------------- main: the input
\* The characters of the strings a name can be: the regular expression and
\* trim read a string character by character.
Chars(s) ==
  CASE s = "fs" -> <<"f", "s">>
    [] s = "gh" -> <<"g", "h">>
    [] s = "1" -> <<"1">>
    [] s = "my server" -> <<"m", "y", " ", "s", "e", "r", "v", "e", "r">>
    [] s = "__proto__" -> <<"_", "_", "p", "r", "o", "t", "o", "_", "_">>
    [] s = "length" -> <<"l", "e", "n", "g", "t", "h">>
    [] s = "example" -> <<"e", "x", "a", "m", "p", "l", "e">>
    [] s = "https://example.com/mcp" ->
         <<"h", "t", "t", "p", "s", ":", "/", "/", "e", "x", "a", "m", "p", "l", "e",
           ".", "c", "o", "m", "/", "m", "c", "p">>
    [] s = " " -> <<" ">>
    [] s = "" -> <<>>
Letters ==
  {"a", "b", "c", "d", "e", "f", "g", "h", "i", "j", "k", "l", "m", "n", "o", "p",
   "q", "r", "s", "t", "u", "v", "w", "x", "y", "z",
   "A", "B", "C", "D", "E", "F", "G", "H", "I", "J", "K", "L", "M", "N", "O", "P",
   "Q", "R", "S", "T", "U", "V", "W", "X", "Y", "Z"}
Digits == {"0", "1", "2", "3", "4", "5", "6", "7", "8", "9"}
\* /^[a-zA-Z0-9_-]+$/.test(value)
NameMatches(s) ==
  /\ Len(Chars(s)) > 0
  /\ \A i \in 1..Len(Chars(s)) : Chars(s)[i] \in Letters \cup Digits \cup {"_", "-"}
\* !value.trim()
IsBlank(s) == \A i \in 1..Len(Chars(s)) : Chars(s)[i] = " "
\* validate of the name prompt: the message shown, "" when the value passes
ValidateName(value) ==
  IF IsBlank(value) THEN "Server name is required"
  ELSE IF ~NameMatches(value)
  THEN "Server name can only contain letters, numbers, hyphens, and underscores"
  ELSE ""

\* a command line is a sequence of tokens, runs of white space among them
IsSpace(tok) == tok \in {" ", "  "}
NotSpace(tok) == ~IsSpace(tok)
\* full_command.trim().split(/\s+/)
SplitCommand(line) ==
  IF SelectSeq(line, NotSpace) = <<>> THEN <<"">> ELSE SelectSeq(line, NotSpace)
\* validate of the command prompt
ValidateCommand(line) ==
  IF SelectSeq(line, NotSpace) = <<>> THEN "Command is required" ELSE ""
\* new URL(value) accepts the text
IsUrl(s) == s \in {"https://example.com/mcp"}
\* validate of the URL prompt
ValidateUrl(s) ==
  IF IsBlank(s) THEN "URL is required"
  ELSE IF ~IsUrl(s) THEN "Please enter a valid URL" ELSE ""

\* parse_key_value_pairs: the value is a sequence of comma-separated items
\* [k, eq, v], eq telling whether the item holds an '='; an item is taken
\* when its '=' is not its first character.  result[key] = val is an
\* assignment to an ordinary object: the key "__proto__" reaches the
\* inherited setter, which ignores a string, and the pair is lost.
RECURSIVE KeyValuePairs(_, _, _)
KeyValuePairs(items, i, m) ==
  IF i > Len(items) THEN m
  ELSE IF items[i].eq /\ items[i].k # ""
       THEN KeyValuePairs(items, i + 1, PropsSet(m, items[i].k, Str(items[i].v)))
       ELSE KeyValuePairs(items, i + 1, m)
parse_key_value_pairs(items) == KeyValuePairs(items, 1, <<>>)

\* argv.<flag> is truthy: the flag is given and is not the empty string
Given(f) == f \in argv.given
\* argv.<flag> !== undefined: the flag is given, be it as the empty string
\* (argv.blank: --env "" and --headers "")
Defined(f) == f \in argv.given \cup argv.blank
can_run_non_interactive ==
  IF ~Given("name") \/ ~Given("type") \/ ~Given("scope") \/ ~Given("clients")
  THEN FALSE
  ELSE IF argv.type = "stdio" /\ ~Given("command") THEN FALSE
  ELSE IF argv.type = "http" /\ ~Given("url") THEN FALSE
  ELSE TRUE

NoInput ==
  [is_interactive |-> FALSE, name |-> "", type |-> "", command |-> "", args |-> <<>>,
   env |-> <<>>, url |-> "", headers |-> <<>>, scope |-> ""]

\* what a user types at the prompts
TypedNames == {"gh", "my server", " ", ""}
TypedCommands == {<<"npx", " ", "-y", "  ", "srv">>, <<" ">>}
TypedUrls == {"https://example.com/mcp", "example", " ", ""}
TypedPairs == {<<>>}

\* is_cancel(input): clack.cancel, process.exit(0)
Cancel(prompt) ==
  /\ prompts' = Append(prompts, prompt)
  /\ pc' = "cancelled"
  /\ UNCHANGED input

\* main: const is_interactive = !can_run_non_interactive(argv)
ParseArgs ==
  /\ pc = "start"
  /\ input' = [input EXCEPT !.is_interactive = ~can_run_non_interactive]
  /\ pc' = "name"
  /\ UNCHANGED <<argv, prompts, platform, env, passwd, cwd,
                 files, dirs, nomkdir, wfault, argv_clients,
                 config, is_global, selected_clients, results, idx, frame, log>>

\* main, server name: the flag as given, else the prompt, which returns
\* only a value its validate accepts
ServerName ==
  /\ pc = "name"
  /\ IF Given("name")
     THEN input' = [input EXCEPT !.name = argv.name] /\ pc' = "type" /\ UNCHANGED prompts
     ELSE \/ \E value \in TypedNames :
               /\ ValidateName(value) = ""
               /\ input' = [input EXCEPT !.name = value]
               /\ prompts' = Append(prompts, "name")
               /\ pc' = "type"
          \/ Cancel("name")
  /\ UNCHANGED <<argv, platform, env, passwd, cwd,
                 files, dirs, nomkdir, wfault, argv_clients,
                 config, is_global, selected_clients, results, idx, frame, log>>

\* main, server type
ServerType ==
  /\ pc = "type"
  /\ IF Given("type")
     THEN input' = [input EXCEPT !.type = argv.type] /\ pc' = "details"
          /\ UNCHANGED prompts
     ELSE \/ \E value \in {"stdio", "http"} :
               /\ input' = [input EXCEPT !.type = value]
               /\ prompts' = Append(prompts, "type")
               /\ pc' = "details"
          \/ Cancel("type")
  /\ UNCHANGED <<argv, platform, env, passwd, cwd,
                 files, dirs, nomkdir, wfault, argv_clients,
                 config, is_global, selected_clients, results, idx, frame, log>>

\* main, type === 'stdio': the full command, split into command and args
Command ==
  /\ pc = "details" /\ input.type = "stdio"
  /\ IF Given("command")
     THEN /\ input' = [input EXCEPT !.command = Head(SplitCommand(argv.command)),
                                    !.args = Tail(SplitCommand(argv.command))]
          /\ pc' = "env" /\ UNCHANGED prompts
     ELSE \/ \E line \in TypedCommands :
               /\ ValidateCommand(line) = ""
               /\ input' = [input EXCEPT !.command = Head(SplitCommand(line)),
                                         !.args = Tail(SplitCommand(line))]
               /\ prompts' = Append(prompts, "command")
               /\ pc' = "env"
          \/ Cancel("command")
  /\ UNCHANGED <<argv, platform, env, passwd, cwd,
                 files, dirs, nomkdir, wfault, argv_clients,
                 config, is_global, selected_clients, results, idx, frame, log>>

\* main, environment variables: the flag, else the prompt of an
\* interactive run, else none
EnvironmentVariables ==
  /\ pc = "env"
  /\ IF Defined("env")
     THEN input' = [input EXCEPT !.env = parse_key_value_pairs(argv.env)]
          /\ pc' = "scope" /\ UNCHANGED prompts
     ELSE IF input.is_interactive
     THEN \/ \E items \in TypedPairs :
               /\ input' = [input EXCEPT !.env = parse_key_value_pairs(items)]
               /\ prompts' = Append(prompts, "env")
               /\ pc' = "scope"
          \/ Cancel("env")
     ELSE pc' = "scope" /\ UNCHANGED <<input, prompts>>
  /\ UNCHANGED <<argv, platform, env, passwd, cwd,
                 files, dirs, nomkdir, wfault, argv_clients,
                 config, is_global, selected_clients, results, idx, frame, log>>

\* main, type 'http': the URL
Url ==
  /\ pc = "details" /\ input.type # "stdio"
  /\ IF Given("url")
     THEN input' = [input EXCEPT !.url = argv.url] /\ pc' = "headers"
          /\ UNCHANGED prompts
     ELSE \/ \E value \in TypedUrls :
               /\ ValidateUrl(value) = ""
               /\ input' = [input EXCEPT !.url = value]
               /\ prompts' = Append(prompts, "url")
               /\ pc' = "headers"
          \/ Cancel("url")
  /\ UNCHANGED <<argv, platform, env, passwd, cwd,
                 files, dirs, nomkdir, wfault, argv_clients,
                 config, is_global, selected_clients, results, idx, frame, log>>

\* main, headers
Headers ==
  /\ pc = "headers"
  /\ IF Defined("headers")
     THEN input' = [input EXCEPT !.headers = parse_key_value_pairs(argv.headers)]
          /\ pc' = "scope" /\ UNCHANGED prompts
     ELSE IF input.is_interactive
     THEN \/ \E items \in TypedPairs :
               /\ input' = [input EXCEPT !.headers = parse_key_value_pairs(items)]
               /\ prompts' = Append(prompts, "headers")
               /\ pc' = "scope"
          \/ Cancel("headers")
     ELSE pc' = "scope" /\ UNCHANGED <<input, prompts>>
  /\ UNCHANGED <<argv, platform, env, passwd, cwd,
                 files, dirs, nomkdir, wfault, argv_clients,
                 config, is_global, selected_clients, results, idx, frame, log>>

\* main, scope
Scope ==
  /\ pc = "scope"
  /\ IF Given("scope")
     THEN input' = [input EXCEPT !.scope = argv.scope] /\ pc' = "select"
          /\ UNCHANGED prompts
     ELSE \/ \E value \in {"global", "project"} :
               /\ input' = [input EXCEPT !.scope = value]
               /\ prompts' = Append(prompts, "scope")
               /\ pc' = "select"
          \/ Cancel("scope")
  /\ UNCHANGED <<argv, platform, env, passwd, cwd,
                 files, dirs, nomkdir, wfault, argv_clients,
                 config, is_global, selected_clients, results, idx, frame, log>>

\* main: the configuration object and is_global, built once the clients
\* are selected
BuildConfig ==
  /\ config' = IF input.type = "stdio"
               THEN Local(input.name, input.command, input.args, input.env)
               ELSE Remote(input.name, input.url, input.headers)
  /\ is_global' = (input.scope = "global")

\* main, clients selection: the ids given on the command line, filtered
SelectClients ==
  /\ pc = "select"
  /\ LET sel == SelectSeq(argv_clients, Registered) IN
       /\ selected_clients' = sel
       /\ IF Len(sel) = 0
          THEN pc' = "prompt" /\ UNCHANGED <<config, is_global>>
          ELSE pc' = "loop" /\ BuildConfig
  /\ UNCHANGED <<argv, input, prompts, platform, env, passwd, cwd,
                 files, dirs, nomkdir, wfault,
                 argv_clients, results, idx, frame, log>>

\* the choices clack.multiselect can return: ids of client_names, each once
SeqsUpTo(S, n) == UNION {[1..k -> S] : k \in 1..n}
Distinct(s) == \A i, j \in 1..Len(s) : i # j => s[i] # s[j]
PromptChoices == {s \in SeqsUpTo(clients, MaxSelected) : Distinct(s)}

\* main, clack.multiselect when no valid id was given
PromptClients ==
  /\ pc = "prompt"
  /\ \E sel \in PromptChoices : selected_clients' = sel
  /\ prompts' = Append(prompts, "clients")
  /\ pc' = "loop" /\ BuildConfig
  /\ UNCHANGED <<argv, input, platform, env, passwd, cwd,
                 files, dirs, nomkdir, wfault,
                 argv_clients, results, idx, frame, log>>

\* main, is_cancel(clients_input): process.exit(0)
PromptCancel ==
  /\ pc = "prompt"
  /\ pc' = "cancelled"
  /\ prompts' = Append(prompts, "clients")
  /\ UNCHANGED <<argv, input, platform, env, passwd, cwd,
                 files, dirs, nomkdir, wfault, argv_clients,
                 config, is_global, selected_clients, results, idx, frame, log>>

\* the call client_fn(config, { is_global }) for the id at position i.  The
\* adapter resolves its path before it enters its try block: what
\* get_config_path throws rejects the promise of the adapter, main has no
\* try around its loop, and the rejection reaches main().catch, which
\* prints the error and exits with status 1.
CallAdapter(i) ==
  LET id == selected_clients[i]
      called == [client |-> Lower(id), name |-> id, path |-> EmptyPath,
                 mem |-> Undef, content |-> Absent, exc |-> ""]
  IN IF PathThrows(Lower(id), is_global)
     THEN /\ frame' = [called EXCEPT !.exc =
               "A system error occurred: uv_os_homedir returned ENOENT (no such file or directory)"]
          /\ pc' = "crashed"
     ELSE /\ frame' = [called EXCEPT !.path = get_config_path(Lower(id), is_global)]
          /\ pc' = "mkdir"

\* variant: an id already reported is not applied again
LoopStepOnce ==
  /\ pc = "loop"
  /\ IF idx > Len(selected_clients)
     THEN pc' = "report" /\ UNCHANGED <<idx, frame>>
     ELSE IF \A i \in 1..Len(results) : results[i].client # selected_clients[idx]
     THEN /\ CallAdapter(idx)
          /\ UNCHANGED idx
     ELSE idx' = idx + 1 /\ UNCHANGED <<pc, frame>>
  /\ UNCHANGED <<argv, input, prompts, platform, env, passwd, cwd,
                 files, dirs, nomkdir, wfault, argv_clients,
                 config, is_global, selected_clients, results, log>>

\* variant: the next adapter is started while the current one has not
\* written yet
LoopStepOverlaps ==
  /\ pc \in {"loop", "write"}
  /\ IF pc = "write"
     THEN /\ idx < Len(selected_clients)
          /\ CallAdapter(idx + 1)
          /\ idx' = idx + 1
     ELSE IF idx > Len(selected_clients)
     THEN pc' = "report" /\ UNCHANGED <<idx, frame>>
     ELSE /\ CallAdapter(idx)
          /\ UNCHANGED idx
  /\ UNCHANGED <<argv, input, prompts, platform, env, passwd, cwd,
                 files, dirs, nomkdir, wfault, argv_clients,
                 config, is_global, selected_clients, results, log>>

\* main, one turn of for (const client_name of selected_clients): the
\* registry lookup, if (client_fn), and the call of the adapter
LoopStep ==
  /\ pc = "loop"
  /\ IF idx > Len(selected_clients)
     THEN pc' = "report" /\ UNCHANGED <<idx, frame>>
     ELSE IF Lower(selected_clients[idx]) \in clients
     THEN /\ CallAdapter(idx)
          /\ UNCHANGED idx
     ELSE idx' = idx + 1 /\ UNCHANGED <<pc, frame>>
  /\ UNCHANGED <<argv, input, prompts, platform, env, passwd, cwd,
                 files, dirs, nomkdir, wfault, argv_clients,
                 config, is_global, selected_clients, results, log>>

ChecksDirGlobalOnly(c, g) == g

\* claude code creates the directory in global scope only
ChecksDir(c, g) == c # "claude code" \/ g

\* a directory and every directory above it
Ancestors(segs) == {SubSeq(segs, 1, k) : k \in 0..Len(segs)}

\* the levels of dir that are missing, those of them mkdirSync cannot
\* create, and the uppermost of these
Missing(dir) == {a \in Ancestors(dir) : a \notin dirs}
RefusedLevels(dir) == Missing(dir) \cap nomkdir
FirstRefused(dir) ==
  CHOOSE a \in RefusedLevels(dir) : \A b \in RefusedLevels(dir) : Len(a) <= Len(b)

\* adapter: if (!fs.existsSync(dir)) fs.mkdirSync(dir, { recursive: true }):
\* the directory is created with every directory above it that is missing;
\* when a level cannot be created the call throws, the levels above that
\* one having been created
EnsureDir ==
  /\ pc = "mkdir"
  /\ LET dir == Resolve(Dirname(frame.path)) IN
       IF ChecksDir(frame.client, is_global) /\ dir \notin dirs
       THEN IF RefusedLevels(dir) # {}
            THEN Throw("EACCES: permission denied, mkdir")
                 /\ LogOp("mkdir-failed", dir, Absent)
                 /\ dirs' = dirs \cup {a \in Missing(dir) : Len(a) < Len(FirstRefused(dir))}
            ELSE dirs' = dirs \cup Ancestors(dir) /\ pc' = "read"
                 /\ LogOp("mkdir", dir, Absent) /\ UNCHANGED frame
       ELSE IF ChecksDir(frame.client, is_global)
       THEN pc' = "read" /\ LogOp("exists", dir, Absent) /\ UNCHANGED <<dirs, frame>>
       ELSE pc' = "read" /\ UNCHANGED <<dirs, frame, log>>
  /\ UNCHANGED <<argv, input, prompts, platform, env, passwd, cwd,
                 files, nomkdir, wfault, argv_clients, config,
                 is_global, selected_clients, results, idx>>

\* adapter: const existing_config = read_config(config_path)
ReadConfig ==
  /\ pc = "read"
  /\ LET file == FileAt(Resolve(frame.path))
         r == read_config(frame.client, file)
     IN /\ frame' = [frame EXCEPT !.mem = r.config, !.content = r.content]
        /\ LogOp("read", Resolve(frame.path), file)
  /\ pc' = "merge"
  /\ UNCHANGED <<argv, input, prompts, platform, env, passwd, cwd,
                 files, dirs, nomkdir, wfault, argv_clients,
                 config, is_global, selected_clients, results, idx>>

\* the in-memory steps of an adapter between its read and its write
Upsert(c, mem, content, cfg) ==
  IF Format(c) = "jsonc" THEN OpencodeEdits(content, mem, cfg)
  ELSE IF IsList(c) THEN ListUpsert(c, mem, cfg)
  ELSE MapUpsert(c, mem, cfg)

\* variant: the adapter goes on to its save without having merged the entry
MergeSkipped ==
  /\ pc = "merge"
  /\ pc' = "write"
  /\ UNCHANGED <<argv, input, prompts, platform, env, passwd, cwd,
                 files, dirs, nomkdir, wfault, argv_clients,
                 config, is_global, selected_clients, results, idx, frame, log>>

\* adapter: bootstrap of the container, transform_config, upsert
Merge ==
  /\ pc = "merge"
  /\ LET u == Upsert(frame.client, frame.mem, frame.content, config) IN
       IF ~u.ok THEN Throw(u.msg)
       ELSE /\ pc' = "write"
            /\ frame' = IF Format(frame.client) = "jsonc"
                        THEN [frame EXCEPT !.content = u.val]
                        ELSE [frame EXCEPT !.mem = u.val]
  /\ UNCHANGED <<argv, input, prompts, platform, env, passwd, cwd,
                 files, dirs, nomkdir, wfault, argv_clients,
                 config, is_global, selected_clients, results, idx, log>>

\* the argument of writeFileSync
WriteData(c, mem, content) ==
  IF Format(c) = "jsonc" THEN Ok(WithFinalNewline(content)) ELSE Serialize(c, mem)

\* a text cut short: what a write leaves that stopped before its end
Truncated(x) == [x EXCEPT !.closed = FALSE, !.nl = FALSE]
\* a text cut before its final newline: the whole document, which parses
Unended(x) == [x EXCEPT !.nl = FALSE]
\* what a write of x can leave that opened the file and then ran out of
\* space: nothing, a beginning that does not parse, all but the newline
Leftovers(x) ==
  {EmptyText, Truncated(x)} \cup (IF x.nl THEN {Unended(x)} ELSE {})

\* variant: every write stops before its end
SetFileTruncated(p, x) ==
  [q \in DOMAIN files \cup {p} |-> IF q = p THEN Truncated(x) ELSE files[q]]

SetFile(p, x) == [q \in DOMAIN files \cup {p} |-> IF q = p THEN x ELSE files[q]]

\* adapter: fs.writeFileSync(config_path, text).  The file is opened for
\* writing, which empties it, and then written: a write that fails at the
\* open leaves the file as it was, one that fails after it (no space left)
\* leaves it empty or holding the text up to where the write stopped,
\* which is at least one byte before its end.
WriteFile ==
  /\ pc = "write"
  /\ LET p == Resolve(frame.path)
         w == WriteData(frame.client, frame.mem, frame.content)
     IN IF ~w.ok THEN Throw(w.msg) /\ UNCHANGED <<files, log>>
        ELSE IF Resolve(Dirname(frame.path)) \notin dirs
        THEN Throw("ENOENT: no such file or directory, open")
             /\ LogOp("write-failed", p, w.val) /\ UNCHANGED files
        ELSE IF p \in DOMAIN wfault /\ wfault[p] = "eacces"
        THEN Throw("EACCES: permission denied, open")
             /\ LogOp("write-failed", p, w.val) /\ UNCHANGED files
        ELSE IF p \in DOMAIN wfault /\ wfault[p] = "enospc"
        THEN Throw("ENOSPC: no space left on device, write")
             /\ LogOp("write-failed", p, w.val)
             /\ \E left \in Leftovers(w.val) : files' = SetFile(p, left)
        ELSE /\ files' = SetFile(p, w.val)
             /\ LogOp("write", p, w.val)
             /\ pc' = "return"
             /\ UNCHANGED frame
  /\ UNCHANGED <<argv, input, prompts, platform, env, passwd, cwd,
                 dirs, nomkdir, wfault, argv_clients, config,
                 is_global, selected_clients, results, idx>>

\* adapter: return { success: true, path }; main: results.push
Return ==
  /\ pc = "return"
  /\ results' = Append(results,
                  [client |-> frame.name, success |-> TRUE, path |-> frame.path])
  /\ idx' = idx + 1
  /\ pc' = "loop"
  /\ UNCHANGED <<argv, input, prompts, platform, env, passwd, cwd,
                 files, dirs, nomkdir, wfault, argv_clients,
                 config, is_global, selected_clients, frame, log>>

\* adapter: catch (err) return { success: false, path, error }; main:
\* results.push
Catch ==
  /\ pc = "catch"
  /\ results' = Append(results,
                  [client |-> frame.name, success |-> FALSE, path |-> frame.path,
                   error |-> frame.exc])
  /\ idx' = idx + 1
  /\ pc' = "loop"
  /\ UNCHANGED <<argv, input, prompts, platform, env, passwd, cwd,
                 files, dirs, nomkdir, wfault, argv_clients,
                 config, is_global, selected_clients, frame, log>>

\* main, after the loop: the outcome is reported and the process ends
Report ==
  /\ pc = "report"
  /\ pc' = "done"
  /\ UNCHANGED <<argv, input, prompts, platform, env, passwd, cwd,
                 files, dirs, nomkdir, wfault, argv_clients,
                 config, is_global, selected_clients, results, idx, frame, log>>

Next ==
  \/ SelectClients
  \/ PromptClients
  \/ PromptCancel
  \/ LoopStep
  \/ EnsureDir
  \/ ReadConfig
  \/ Merge
  \/ WriteFile
  \/ Return
  \/ Catch
  \/ Report

\* a run of main from its first statement
NextMain ==
  \/ ParseArgs
  \/ ServerName
  \/ ServerType
  \/ Command
  \/ EnvironmentVariables
  \/ Url
  \/ Headers
  \/ Scope
  \/ Next

\* ------------------------------------------------------- initial states
NoFrame ==
  [client |-> "", name |-> "", path |-> EmptyPath, mem |-> Undef,
   content |-> Absent, exc |-> ""]

DefaultEnv ==
  [HOME |-> AbsPath(<<"home", "u">>), USERPROFILE |-> Unset,
   APPDATA |-> Unset, XDG_CONFIG_HOME |-> Unset]
ProjectDir == AbsPath(<<"home", "u", "proj">>)

\* descriptors main can build: names the validation admits (letters,
\* digits, hyphens, underscores), env and headers empty or not; among the
\* names an array index and two names that objects and arrays treat
\* specially
PlainNames == {"fs", "1"}
SpecialNames == {"__proto__", "length"}
DescNames == PlainNames \cup SpecialNames
Maps == {<<>>, <<P("KEY", Str("v"))>>}
Descs ==
  {Local("fs", "npx", <<"-y", "srv">>, e) : e \in Maps}
    \cup {Remote("fs", "https://example.com/mcp", h) : h \in Maps}
    \cup {Local(n, "npx", <<"-y", "srv">>, <<>>) : n \in DescNames \ {"fs"}}
RunConfigs ==
  {Local("fs", "npx", <<"-y", "srv">>, <<P("KEY", Str("v"))>>),
   Local("__proto__", "npx", <<"-y", "srv">>, <<>>)}

\* file contents.  Names of the entries an existing container can hold.
EntryNames == {"fs", "gh", "1"}
\* a map holds each name once; a list can repeat one (two names show it)
NameSeqs(dup) ==
  {<<>>} \cup {s \in SeqsUpTo(EntryNames, MaxEntries) : Distinct(s)}
        \cup (IF dup THEN SeqsUpTo({"fs", "gh"}, MaxEntries) ELSE {})
OldEntryNode(c, n, f) ==
  IF IsList(c)
  THEN ObjNode(<<M("name", Str(n), f), M("command", Str("old"), f)>>)
  ELSE ObjNode(<<M("command", Str("old"), f)>>)
ContNode(c, s, f) ==
  IF IsList(c) THEN ArrNode([i \in 1..Len(s) |-> OldEntryNode(c, s[i], f)])
  ELSE ObjNode([i \in 1..Len(s) |-> M(s[i], OldEntryNode(c, s[i], f), f)])
\* a container of the wrong shape, a falsy one, a text where a container belongs
WrongShape(c) == IF IsList(c) THEN ObjNode(<<>>) ELSE ArrNode(<<>>)
Falsy(c) == IF Format(c) = "toml" THEN Bool(FALSE) ELSE Null
Containers(c, f) ==
  {ContNode(c, s, f) : s \in NameSeqs(IsList(c))}
    \cup {WrongShape(c), Falsy(c), Str("x"), NoRoot}
Theme(f) == M("theme", Str("dark"), f)
Note(f) == M("//", Str("note"), f)
\* an object document: the container (unless NoRoot), an unrelated key
\* before or after it, a comment inside and one ahead of the root
DocText(c, cont, top, f, comment, closed) ==
  Text(IF comment THEN <<"// head">> ELSE <<>>,
       ObjNode((IF top = "before" THEN <<Theme(f)>> ELSE <<>>)
               \o (IF cont.t = "none" THEN <<>> ELSE <<M(ContainerKey(c), cont, f)>>)
               \o (IF top = "after" THEN <<Theme(f)>> ELSE <<>>)
               \o (IF comment THEN <<Note(f)>> ELSE <<>>)),
       <<>>, closed, FALSE, TRUE)
Garbage == Text(<<>>, NoRoot, <<>>, TRUE, TRUE, FALSE)
Tops == {"none", "before", "after"}
OddTexts ==
  {Garbage, EmptyText,
   Text(<<>>, Null, <<>>, TRUE, FALSE, TRUE),
   Text(<<>>, ArrNode(<<>>), <<>>, TRUE, FALSE, TRUE),
   Text(<<>>, Str("x"), <<>>, TRUE, FALSE, TRUE)}
\* the text one apply of adapter c to file saves for descriptor cfg
Applied(c, file, cfg) ==
  LET r == read_config(c, file)
      u == Upsert(c, r.config, r.content, cfg)
  IN WriteData(c, IF Format(c) = "jsonc" THEN r.config ELSE u.val,
                  IF Format(c) = "jsonc" THEN u.val ELSE r.content).val
\* the descriptor of an earlier run under the same name, with other arguments
Earlier(n) == Local(n, "npx", <<"srv", "--old", "-y">>, <<>>)
\* what the earlier run left in the file of a JSON client that had none
EarlierSaves(c) ==
  IF Format(c) = "json" THEN {Applied(c, Absent, Earlier(n)) : n \in DescNames} ELSE {}
\* every content adapter c is started on
Catalog(c) ==
  {Absent} \cup OddTexts \cup EarlierSaves(c)
    \cup {DocText(c, cont, top, "canon", FALSE, TRUE) :
            cont \in Containers(c, "canon"), top \in Tops}
    \cup {DocText(c, cont, "before", "canon", FALSE, FALSE) : cont \in Containers(c, "canon")}
    \cup (IF Format(c) # "jsonc" THEN {}
          ELSE {DocText(c, cont, top, "custom", FALSE, TRUE) :
                  cont \in Containers(c, "custom"), top \in Tops}
               \cup UNION {{DocText(c, cont, top, f, TRUE, TRUE) :
                              cont \in Containers(c, f), top \in Tops} :
                            f \in {"canon", "custom"}})

\* the path adapter c resolves when its file is (to be) named ext
InitPath(c, g, ext) ==
  IF c = "opencode" THEN PathJoin(OpencodeBase(g), <<ext>>) ELSE get_config_path(c, g)
ExtOf(file) ==
  IF Exists(file) /\ HasComments(file) THEN "opencode.jsonc" ELSE "opencode.json"

\* the file system in which each client c of S finds fileOf[c], its
\* directory present iff dirOf[c]
FilesFor(S, fileOf, g) ==
  LET have == {c \in S : Exists(fileOf[c])}
      pathOf(c) == Resolve(InitPath(c, g, ExtOf(fileOf[c])))
  IN [p \in {pathOf(c) : c \in have} |->
        fileOf[CHOOSE c \in have : pathOf(c) = p]]
\* the directories that exist in any case: the working directory, the home
\* directory and the directories above them; a home directory that cannot
\* be determined is none
BaseDirs ==
  {<<>>}
    \cup Ancestors(Resolve(cwd))
    \cup (IF HomedirThrows THEN {} ELSE Ancestors(Resolve(os_homedir)))
DirsFor(S, fileOf, dirOf, g) ==
  BaseDirs
    \cup UNION {Ancestors(Resolve(Dirname(InitPath(c, g, ExtOf(fileOf[c]))))) :
                  c \in {d \in S : dirOf[d]}}

\* the flags that give descriptor cfg and scope g, and the locals main holds
\* once it has read them; blank holds env (headers) when the empty map of
\* cfg comes from the flag given as the empty string, not from its absence
Spaced(words) ==
  [i \in 1..(2 * Len(words) - 1) |-> IF i % 2 = 1 THEN words[(i + 1) \div 2] ELSE " "]
Items(m) == [i \in 1..Len(m) |-> [k |-> m[i].k, eq |-> TRUE, v |-> m[i].v.s]]
FlagsOf(cfg, g, blank) ==
  [given |-> {"name", "type", "scope"}
               \cup (IF argv_clients # <<>> THEN {"clients"} ELSE {})
               \cup (IF cfg.type = "stdio" THEN {"command"} ELSE {"url"})
               \cup (IF cfg.type = "stdio" /\ cfg.env # <<>> THEN {"env"} ELSE {})
               \cup (IF cfg.type = "http" /\ cfg.headers # <<>> THEN {"headers"} ELSE {}),
   blank |-> blank,
   name |-> cfg.name, type |-> cfg.type,
   command |-> IF cfg.type = "stdio" THEN Spaced(<<cfg.command>> \o cfg.args) ELSE <<>>,
   env |-> IF cfg.type = "stdio" THEN Items(cfg.env) ELSE <<>>,
   url |-> IF cfg.type = "http" THEN cfg.url ELSE "",
   headers |-> IF cfg.type = "http" THEN Items(cfg.headers) ELSE <<>>,
   scope |-> IF g THEN "global" ELSE "project"]
InputOf(cfg, g) ==
  [is_interactive |-> ~can_run_non_interactive, name |-> cfg.name, type |-> cfg.type,
   command |-> IF cfg.type = "stdio" THEN cfg.command ELSE "",
   args |-> IF cfg.type = "stdio" THEN cfg.args ELSE <<>>,
   env |-> IF cfg.type = "stdio" THEN cfg.env ELSE <<>>,
   url |-> IF cfg.type = "http" THEN cfg.url ELSE "",
   headers |-> IF cfg.type = "http" THEN cfg.headers ELSE <<>>,
   scope |-> IF g THEN "global" ELSE "project"]

\* the prompts main has shown when it comes to the selection with these
\* flags: an interactive run asks for the env (the headers) when the flag
\* is undefined
PromptsShown ==
  IF ~input.is_interactive THEN <<>>
  ELSE IF input.type = "stdio" /\ ~Defined("env") THEN <<"env">>
  ELSE IF input.type = "http" /\ ~Defined("headers") THEN <<"headers">>
  ELSE <<>>

\* the flags that can be given as the empty string for descriptor cfg
Blanks(cfg) ==
  {{}} \cup (IF cfg.type = "stdio" /\ cfg.env = <<>> THEN {{"env"}} ELSE {})
       \cup (IF cfg.type = "http" /\ cfg.headers = <<>> THEN {{"headers"}} ELSE {})
\* main has read its flags and is about to select the clients
StartedWith(blank) ==
  /\ argv = FlagsOf(config, is_global, blank) /\ input = InputOf(config, is_global)
  /\ prompts = PromptsShown
  /\ selected_clients = <<>> /\ results = <<>> /\ idx = 1
  /\ pc = "select" /\ frame = NoFrame /\ log = <<>>
Started == StartedWith({})

\* --- runs of main: what --clients can hold, and what each named client
\* finds at its path
\* every id of the registry, ids in other letter cases, ids it does not have
RawIds ==
  clients \cup {"Cursor", "CODEX", "Gemini", "VSCode", "Claude Code", "nope"}
\* every list of one or two ids; the longer lists name the clients that meet
\* one fault of each kind, an adapter without source and an unknown id
LongIds == {"claude code", "cursor", "codex", "continue", "gemini", "nope"}
ArgLists == {<<>>} \cup SeqsUpTo(RawIds, 2) \cup SeqsUpTo(LongIds, MaxSelected)
Named(raw) == {Lower(raw[i]) : i \in {j \in 1..Len(raw) : Registered(raw[j])}}
\* what a named client can find: nothing, or the one other state tried for it
Conds(c) ==
  {"fresh"} \cup
    CASE c \in {"cursor", "vscode"} -> {"nodir"}
      [] c \in {"claude desktop", "claude code"} -> {"eacces"}
      [] c \in {"opencode", "codex"} -> {"enospc"}
      [] c \in {"continue"} -> {"badshape"}
      [] c \in {"goose"} -> {"corrupt"}
      [] OTHER -> {"existing"}
CondFile(c, k) ==
  CASE k \in {"fresh", "nodir"} -> Absent
    [] k = "corrupt" -> Garbage
    [] k = "badshape" -> DocText(c, Str("x"), "before", "canon", FALSE, TRUE)
    [] OTHER -> DocText(c, ContNode(c, <<"gh">>, "canon"), "before", "canon", FALSE, TRUE)
CondsFor(S) == {f \in [S -> {"fresh", "existing", "corrupt", "badshape", "nodir",
                              "eacces", "enospc"}] : \A c \in S : f[c] \in Conds(c)}
\* the level of its directory that cannot be created for client c: for
\* vscode the one above the directory, where that one is missing too
RefusedFor(c, dir) ==
  LET up == SubSeq(dir, 1, Len(dir) - 1) IN
  IF c = "vscode" /\ up \notin BaseDirs THEN up ELSE dir
FileSystem(S, cond, g) ==
  LET fileOf == [c \in S |-> CondFile(c, cond[c])]
      dirOf == [c \in S |-> cond[c] \notin {"fresh", "nodir"}]
      pathOf(c) == InitPath(c, g, "opencode.json")
      faulty == {c \in S : cond[c] \in {"eacces", "enospc"}}
  IN /\ files = FilesFor(S, fileOf, g)
     /\ dirs = DirsFor(S, fileOf, dirOf, g)
     /\ nomkdir = {RefusedFor(c, Resolve(Dirname(pathOf(c)))) :
                      c \in {d \in S : cond[d] = "nodir"}} \ BaseDirs
     /\ wfault = [p \in {Resolve(pathOf(c)) : c \in faulty} |->
                    cond[CHOOSE c \in faulty : Resolve(pathOf(c)) = p]]
\* the hosts of a run: the usual one, and one that has no HOME and no
\* record of the user's home directory
Hosts ==
  {[env |-> DefaultEnv, passwd |-> PasswdHome, cwd |-> ProjectDir],
   [env |-> [DefaultEnv EXCEPT !.HOME = Unset], passwd |-> Unset, cwd |-> ProjectDir]}
\* a fault of the host is tried for lists of one or two ids, one of them
\* registered, on a file system that holds none of the files; the clients
\* whose path cannot be resolved have no file to be found.  A run that
\* names no registered id (it prompts for the clients) is given no id or
\* one, and the first descriptor; given no id in project scope it is also
\* tried with the second, whose env is empty: for want of the flag, or by
\* the flag given as the empty string
Init ==
  /\ platform = "linux"
  /\ argv_clients \in ArgLists
  /\ Named(argv_clients) = {} => Len(argv_clients) <= 1
  /\ \E h \in Hosts :
       /\ h.passwd = Unset =>
            Len(argv_clients) <= 2 /\ Named(argv_clients) # {}
       /\ env = h.env /\ passwd = h.passwd /\ cwd = h.cwd
  /\ config \in RunConfigs
  /\ is_global \in BOOLEAN
  /\ Named(argv_clients) = {} =>
       config.name = "fs" \/ (argv_clients = <<>> /\ ~is_global)
  /\ LET S == {c \in Named(argv_clients) : ~PathThrows(c, is_global)} IN
       \E cond \in CondsFor(S) :
         /\ HomedirThrows => \A c \in S : cond[c] = "fresh"
         /\ FileSystem(S, cond, is_global)
  /\ \E blank \in Blanks(config) :
       /\ blank # {} => Named(argv_clients) = {}
       /\ StartedWith(blank)
Spec == Init /\ [][Next]_vars

\* --- repeated applications: one client named one or more times in a row,
\* started on every content of its catalog, nothing failing at the disk
Repeat(c, k) == [i \in 1..k |-> c]
InitApply ==
  /\ platform = "linux" /\ env = DefaultEnv /\ passwd = PasswdHome /\ cwd = ProjectDir
  /\ config \in Descs
  /\ is_global = TRUE
  /\ \/ \E c \in ModelClients : \E file \in Catalog(c) :
          /\ argv_clients = Repeat(c, MaxSelected)
          /\ files = FilesFor({c}, [d \in {c} |-> file], TRUE)
          /\ dirs = DirsFor({c}, [d \in {c} |-> file], [d \in {c} |-> Exists(file)], TRUE)
     \/ argv_clients = <<>> /\ files = <<>> /\ dirs = BaseDirs
  /\ nomkdir = {} /\ wfault = <<>>
  /\ Started
SpecApply == InitApply /\ [][Next]_vars

\* --- environments: every adapter run once, in the order of the registry,
\* under each platform and each setting of the variables the paths read
ClientOrder ==
  <<"claude desktop", "claude code", "cursor", "continue", "windsurf",
    "opencode", "vscode", "goose", "codex">>
Platforms == {"linux", "darwin", "win32"}
HomeDir == AbsPath(<<"home", "u">>)
Envs ==
  [HOME : {Unset, EmptyPath, HomeDir},
   USERPROFILE : {Unset, AbsPath(<<"Users", "u">>)},
   APPDATA : {Unset, AbsPath(<<"Users", "u", "AppData", "Roaming">>)},
   XDG_CONFIG_HOME : {Unset, PathJoin(HomeDir, <<".config">>), HomeDir}]
Cwds == {ProjectDir, HomeDir, PathJoin(HomeDir, <<".config">>)}
\* what the base directory of OpenCode holds at the start: neither file,
\* opencode.jsonc, opencode.json, or both
OpencodeFiles(g) ==
  LET at(ext) == Resolve(PathJoin(OpencodeBase(g), <<ext>>))
      plain == DocText("opencode", NoRoot, "before", "canon", FALSE, TRUE)
  IN {<<>>,
      [p \in {at("opencode.jsonc")} |-> BaselineText],
      [p \in {at("opencode.json")} |-> plain],
      [p \in {at("opencode.jsonc"), at("opencode.json")} |->
         IF p = at("opencode.jsonc") THEN BaselineText ELSE plain]}
InitPaths ==
  /\ platform \in Platforms /\ env \in Envs /\ passwd = PasswdHome /\ cwd \in Cwds
  /\ config = Local("fs", "npx", <<"-y", "srv">>, <<>>)
  /\ is_global \in BOOLEAN
  /\ files \in OpencodeFiles(is_global)
  /\ dirs = BaseDirs
              \cup UNION {Ancestors(SubSeq(p, 1, Len(p) - 1)) : p \in DOMAIN files}
  /\ nomkdir \in {{}, {Resolve(Dirname(WindsurfPath))}}
  /\ argv_clients \in {ClientOrder}
       \cup (IF platform = "linux" /\ env = DefaultEnv /\ cwd = ProjectDir
                 /\ files = <<>> /\ nomkdir = {}
             THEN {<<>>} ELSE {})
  /\ wfault = <<>>
  /\ Started
SpecPaths == InitPaths /\ [][Next]_vars

\* --- the input of main: flags given or not, a name the prompt would
\* refuse, pairs that are no pairs; nothing on disk, the file of codex not
\* writable
FlagNames == {"name", "type", "command", "env", "url", "headers", "scope"}
CommandLine == <<"npx", " ", "-y", "  ", "srv">>
PairItems ==
  <<[k |-> "KEY", eq |-> TRUE, v |-> "v"], [k |-> "", eq |-> TRUE, v |-> "x"],
    [k |-> "__proto__", eq |-> TRUE, v |-> "x"], [k |-> "flag", eq |-> FALSE, v |-> ""]>>
Argv(given, name, type) ==
  [given |-> given, blank |-> {},
   name |-> IF "name" \in given THEN name ELSE "",
   type |-> IF "type" \in given THEN type ELSE "",
   command |-> IF "command" \in given THEN CommandLine ELSE <<>>,
   env |-> IF "env" \in given THEN PairItems ELSE <<>>,
   url |-> IF "url" \in given THEN "https://example.com/mcp" ELSE "",
   headers |-> IF "headers" \in given THEN PairItems ELSE <<>>,
   scope |-> IF "scope" \notin given THEN ""
             ELSE IF type = "stdio" THEN "project" ELSE "global"]
\* flags that go together: those of the other type are left out
Sensible(a) ==
  /\ a.type = "stdio" => a.given \cap {"url", "headers"} = {}
  /\ a.type = "http" => a.given \cap {"command", "env"} = {}
  /\ a.type = "" => a.given \cap {"command", "env", "url", "headers"}
                       \in {{}, {"command", "url"}}
Argvs ==
  {a \in {Argv(g, n, t) : g \in SUBSET FlagNames, n \in {"fs", "my server"},
                          t \in {"stdio", "http"}} : Sensible(a)}
\* --env "" with a stdio type, --headers "" with an http type
BlankOf(a) ==
  {{}} \cup (IF a.type = "stdio" /\ "env" \notin a.given THEN {{"env"}} ELSE {})
       \cup (IF a.type = "http" /\ "headers" \notin a.given THEN {{"headers"}} ELSE {})
\* --name, --type, --scope and --command or --url are given
FlagsComplete(a) ==
  /\ {"name", "type", "scope"} \subseteq a.given
  /\ a.type = "stdio" => "command" \in a.given
  /\ a.type = "http" => "url" \in a.given
\* --clients as typed: truthy when it holds ids, and also when it holds
\* only separators ("," or " "), which parse to no id; falsy when absent
RawClients(a, ids) ==
  IF ids # <<>> THEN {"ids"}
  ELSE IF FlagsComplete(a) THEN {"absent", "separators"} ELSE {"absent"}
WithClients(a, raw) ==
  [a EXCEPT !.given = IF raw = "absent" THEN @ ELSE @ \cup {"clients"}]
WithBlank(a, blank) == [a EXCEPT !.blank = blank]
NoConfig == [name |-> "", type |-> ""]
InitMain ==
  /\ platform = "linux" /\ env = DefaultEnv /\ passwd = PasswdHome /\ cwd = ProjectDir
  /\ \E a \in Argvs :
       /\ argv_clients \in {<<"Cursor", "codex">>}
            \cup (IF FlagsComplete(a) \/ a.given = {} THEN {<<>>, <<"nope">>} ELSE {})
       /\ argv \in {WithBlank(WithClients(a, raw), blank) :
                     raw \in RawClients(a, argv_clients), blank \in BlankOf(a)}
  /\ input = NoInput /\ prompts = <<>>
  /\ config = NoConfig /\ is_global = FALSE
  /\ files = <<>> /\ dirs = BaseDirs /\ nomkdir = {}
  /\ wfault = [p \in {Resolve(CodexPath)} |-> "eacces"]
  /\ selected_clients = <<>> /\ results = <<>> /\ idx = 1
  /\ pc = "start" /\ frame = NoFrame /\ log = <<>>
SpecMain == InitMain /\ [][NextMain]_vars

\* ------------------------------------------------------------ properties
\* invocation i of the run, as the log shows it
OpsOf(i) == {j \in 1..Len(log) : log[j].inv = i}
Attempted(i) == \E j \in OpsOf(i) : log[j].op \in {"mkdir", "mkdir-failed", "read"}
Saved(i) == \E j \in OpsOf(i) : log[j].op = "write"
\* what stands in the way of selected client j, whatever ran before it
OwnFault(j) ==
  LET c == Lower(selected_clients[j])
      path == get_config_path(c, is_global)
      r == read_config(c, FileAt(Resolve(path)))
  IN \/ Resolve(path) \in DOMAIN wfault
     \/ Ancestors(Resolve(Dirname(path))) \cap nomkdir # {}
     \/ ~Upsert(c, r.config, r.content, config).ok

\* the application of selected client i failed: its adapter returned a
\* failure, or raised
Failed(i) ==
  \/ i <= Len(results) /\ ~results[i].success
  \/ pc = "crashed" /\ idx = i

\* C1: the run never short-circuits: when the run has ended, every client
\* listed after one whose application failed has been attempted and has a
\* result of its own, and that result is a failure only if something
\* stands in the way of that client itself.
C1_NeverShortCircuits ==
  pc \in {"done", "crashed"} =>
    \A i \in 1..Len(selected_clients) : Failed(i) =>
      \A j \in (i + 1)..Len(selected_clients) :
        /\ j <= Len(results)
        /\ results[j].client = selected_clients[j]
        /\ Attempted(j)
        /\ (~results[j].success => OwnFault(j))

\* C2: the results are one per occurrence of a registered id in the
\* selected list, in the order of that list: at every moment the results
\* are those of the clients before the current one, each of them attempted,
\* and when the loop has ended there is one for every selected id; the list
\* given on the command line is selected as it is, unregistered ids removed.
\* (A run that an exception ends inside the loop produces no list.)
C2_OnePerOccurrenceInOrder ==
  /\ Len(results) <= Len(selected_clients)
  /\ \A i \in 1..Len(results) :
       results[i].client = selected_clients[i] /\ Attempted(i)
  /\ pc \in {"loop", "report", "done"} => Len(results) = idx - 1
  /\ pc \in {"report", "done"} => Len(results) = Len(selected_clients)
  /\ (pc \notin {"select", "prompt", "cancelled"}
        /\ SelectSeq(argv_clients, Registered) # <<>>)
       => selected_clients = SelectSeq(argv_clients, Registered)
\* an id selected twice was applied twice and reported twice
C2_Witness ==
  /\ pc = "done" /\ Len(results) = 2
  /\ selected_clients[1] = selected_clients[2]
  /\ Saved(1) /\ Saved(2)

\* C3: an adapter always ends by returning a result and never raises: the
\* run is never ended by an exception, a result with success true carries
\* the path and stands for a completed save, a result with success false
\* carries the path and a message and stands for a step that raised.
C3_AlwaysReturnsResult ==
  /\ pc \in {"select", "prompt", "cancelled", "loop", "mkdir", "read", "merge",
             "write", "return", "catch", "report", "done"}
  /\ \A i \in 1..Len(results) :
       IF results[i].success
       THEN /\ DOMAIN results[i] = {"client", "success", "path"}
            /\ Saved(i)
            /\ results[i].path = get_config_path(Lower(results[i].client), is_global)
       ELSE /\ DOMAIN results[i] = {"client", "success", "path", "error"}
            /\ results[i].error # ""
            /\ ~Saved(i)
            /\ results[i].path = get_config_path(Lower(results[i].client), is_global)

\* the text written by invocation i, and the document an adapter loads back
WriteOf(i) == log[CHOOSE j \in OpsOf(i) : log[j].op = "write"].data
Loaded(c, file) == read_config(c, file).config
\* how many entries of the client's container carry that name
EntriesNamed(c, doc, name) ==
  LET cont == IF CanRead(doc) THEN GetProp(doc, ContainerKey(c)) ELSE Undef IN
  IF IsList(c)
  THEN (IF cont.t = "arr"
        THEN Cardinality({i \in 1..Len(cont.a) :
               CanRead(cont.a[i]) /\ GetProp(cont.a[i], "name") = Str(name)})
        ELSE 0)
  ELSE (IF cont.t = "obj" /\ FindKey(cont.m, name) > 0 THEN 1 ELSE 0)
TargetFile(i) == FileAt(Resolve(results[i].path))

\* C4: upsert is idempotent for every adapter: when the same descriptor
\* has been applied twice in a row with success, whatever the file held
\* before, the second save wrote the text the first save wrote, and the
\* file holds exactly one entry of the descriptor's name.
C4_Idempotent ==
  (pc = "done" /\ Len(results) >= 2 /\ results[1].success /\ results[2].success)
    => /\ WriteOf(2) = WriteOf(1)
       /\ EntriesNamed(Lower(results[2].client),
                       Loaded(Lower(results[2].client), TargetFile(2)),
                       config.name) = 1

\* the text read by invocation i
ReadOf(i) == log[CHOOSE j \in OpsOf(i) : log[j].op = "read"].data
\* the entries of the container as a text lists them, the one named name
\* (for the list, the first of that name) left out
OtherEntries(c, file, name) ==
  LET cont == IF Exists(file) THEN FindNode(file.root, <<ContainerKey(c)>>) ELSE NoRoot
      other(m) == ~IsComment(m) /\ m.k # name
      rest == IF cont.t = "obj" THEN SelectSeq(cont.m, other) ELSE <<>>
      i == IF cont.t = "arr" THEN FindIndexByName(cont.a, name, 1) ELSE 0
  IN IF cont.t = "obj" /\ ~IsList(c)
     THEN [j \in 1..Len(rest) |-> <<rest[j].k, ParseNode(rest[j].v)>>]
     ELSE IF cont.t = "arr" /\ IsList(c)
     THEN [j \in 1..(Len(cont.a) - (IF i > 0 THEN 1 ELSE 0)) |->
             ParseNode(cont.a[IF i > 0 /\ j >= i THEN j + 1 ELSE j])]
     ELSE <<>>
\* the top-level keys of a text other than the container and the comments
TopLevel(c, file) ==
  LET top(m) == ~IsComment(m) /\ m.k # ContainerKey(c) IN
  IF Exists(file) /\ file.root.t = "obj" THEN SelectSeq(file.root.m, top) ELSE <<>>
KeepsTopLevel(c, before, after) ==
  \A j \in 1..Len(TopLevel(c, before)) :
    /\ Exists(after)
    /\ FindNode(after.root, <<TopLevel(c, before)[j].k>>) # NoRoot
    /\ ParseNode(FindNode(after.root, <<TopLevel(c, before)[j].k>>))
         = ParseNode(TopLevel(c, before)[j].v)

\* C5: apply is lossless outside the target entry: when the container of
\* the loaded file has an entry of the descriptor's name and the
\* application succeeds, the saved file lists every other entry of the
\* container with the value and in the relative order the loaded file
\* listed them, and holds every other top-level key with its value.
C5_LosslessOutsideTarget ==
  (pc = "loop" /\ Len(results) = 1 /\ results[1].success
     /\ EntriesNamed(Lower(results[1].client),
                     Loaded(Lower(results[1].client), ReadOf(1)), config.name) >= 1)
    => /\ OtherEntries(Lower(results[1].client), WriteOf(1), config.name)
            = OtherEntries(Lower(results[1].client), ReadOf(1), config.name)
       /\ KeepsTopLevel(Lower(results[1].client), ReadOf(1), WriteOf(1))

\* the list a Continue document holds (empty when it has none)
ListOf(doc) ==
  LET cont == GetProp(doc, "mcpServers") IN IF cont.t = "arr" THEN cont.a ELSE <<>>
ServerList(file) == ListOf(Loaded("continue", file))
Positional(old, new, name, entry) ==
  LET i == FindIndexByName(old, name, 1) IN
  IF i > 0
  THEN /\ Len(new) = Len(old)
       /\ new[i] = entry
       /\ \A j \in 1..Len(old) : j # i => new[j] = old[j]
  ELSE /\ Len(new) = Len(old) + 1
       /\ new[Len(new)] = entry
       /\ \A j \in 1..Len(old) : new[j] = old[j]
ContinueSaved ==
  /\ pc = "loop" /\ Len(results) = 1 /\ results[1].success
  /\ Lower(results[1].client) = "continue"

\* C6: the Continue upsert is positional: with the first element of the
\* descriptor's name at index i of the loaded list, the list has after the
\* upsert the same length, the new element at i and every other element as
\* it was; with no element of that name, it is the loaded list with the new
\* element appended, one longer.  This holds of the document in memory
\* after every upsert, and of the saved file against the loaded one
\* whenever the loaded document is a mapping.
C6_ListUpsertPositional ==
  /\ (pc = "write" /\ frame.client = "continue")
       => Positional(ServerList(ReadOf(Len(results) + 1)), ListOf(frame.mem),
                     config.name, transform_config("continue", config))
  /\ (ContinueSaved /\ Exists(ReadOf(1)) /\ ReadOf(1).root.t = "obj")
       => Positional(ServerList(ReadOf(1)), ServerList(WriteOf(1)),
                     config.name, transform_config("continue", config))
\* [A, B, C] with an update to B
C6_Witness ==
  /\ ContinueSaved
  /\ Len(ServerList(ReadOf(1))) = 3
  /\ FindIndexByName(ServerList(ReadOf(1)), config.name, 1) = 2
  /\ ServerList(WriteOf(1))[2] = transform_config("continue", config)
  /\ ServerList(WriteOf(1))[2] # ServerList(ReadOf(1))[2]

\* a text that is not a document of the format: nothing, an unfinished
\* value, tokens that are no value, and what the format does not admit
SyntaxError(fmt, x) ==
  CASE fmt = "json" -> x.root.t = "none" \/ ~x.closed \/ x.junk \/ HasComments(x)
    [] fmt = "jsonc" -> x.root.t = "none" \/ ~x.closed \/ x.junk
    [] fmt = "yaml" -> ~x.closed \/ x.junk
    [] fmt = "toml" -> ~x.closed \/ x.junk \/ x.root.t \notin {"none", "obj"}
JustRead == pc = "merge" /\ Exists(ReadOf(Len(results) + 1))

\* C7: load is fail-open for every format: an adapter that has read a
\* file which exists but is syntactically invalid holds what it would hold
\* had there been no file, the empty baseline document and, for opencode,
\* the baseline text.
C7_LoadFailOpen ==
  (JustRead /\ SyntaxError(Format(frame.client), ReadOf(Len(results) + 1)))
    => /\ frame.mem = read_config(frame.client, Absent).config
       /\ frame.content = read_config(frame.client, Absent).content

\* what an OpenCode text holds outside the paths the adapter edits: the
\* comments around the root, the members of the root other than mcp (and
\* other than $schema where the adapter adds it), the members of mcp other
\* than the entry; each member with its key, its value and its layout
MembersBut(node, skip) ==
  LET keep(m) == m.k \notin skip IN
  IF node.t = "obj" THEN SelectSeq(node.m, keep) ELSE <<>>
Untouched(x, name, added) ==
  [lead |-> x.lead, trail |-> x.trail,
   top |-> MembersBut(x.root, {"mcp"} \cup added),
   inner |-> MembersBut(FindNode(x.root, <<"mcp">>), {name})]
SchemaAdded(x) ==
  IF FindNode(x.root, <<"$schema">>) = NoRoot THEN {"$schema"} ELSE {}
OpencodeSaved(i) ==
  /\ i <= Len(results) /\ results[i].success
  /\ Lower(results[i].client) = "opencode"
  /\ Exists(ReadOf(i)) /\ ~SyntaxError("jsonc", ReadOf(i))
  /\ ReadOf(i).root.t = "obj"

\* C8: the OpenCode adapter writes the text it read with the patches
\* applied: whenever it has saved over a valid document, every comment,
\* every member of the root other than $schema and mcp and every member of
\* mcp other than the entry stands in the saved text as in the text read,
\* in the same order and the same layout, and the entry stands under mcp.
C8_PatchedTextKeepsTheRest ==
  \A i \in 1..MaxSelected : OpencodeSaved(i) =>
    /\ Untouched(WriteOf(i), config.name, SchemaAdded(ReadOf(i)))
         = Untouched(ReadOf(i), config.name, {})
    /\ FindNode(WriteOf(i).root, <<"mcp", config.name>>)
         = StringifyNode(transform_config("opencode", config))

\* invocation i, which has returned and is the last that has
Returned(i) == pc = "loop" /\ i = Len(results) /\ i >= 1
WriteFailed(i) == \E j \in OpsOf(i) : log[j].op = "write-failed"
WasRead(i) == \E j \in OpsOf(i) : log[j].op = "read"
\* the file as it was before invocation i: an invocation that did not get
\* to read was stopped at a missing directory, which holds no file
Previous(i) == IF WasRead(i) THEN ReadOf(i) ELSE Absent
\* the text invocation i handed to the write that failed
FailedWrite(i) == log[CHOOSE j \in OpsOf(i) : log[j].op = "write-failed"].data
\* a text that is a whole document: it has a root and is not cut short
Whole(x) == Exists(x) /\ x.root # NoRoot /\ x.closed /\ ~x.junk
\* the file of invocation i holds an entry under the name: a member of the
\* container, or an element of the list that carries the name
HoldsEntry(i) ==
  LET c == Lower(results[i].client) IN
  IF IsList(c) THEN EntriesNamed(c, Loaded(c, TargetFile(i)), config.name) >= 1
  ELSE FindNode(TargetFile(i).root, <<ContainerKey(c), config.name>>) # NoRoot
\* an adapter that assigns container[name] and serializes the document
\* again: for the name "__proto__" the assignment leaves no property
AssignsByName(c) == ~IsList(c) /\ Format(c) # "jsonc"

Writes == {j \in 1..Len(log) : log[j].op \in {"write", "write-failed"}}

\* C10: no two adapters touch the same file: in every environment and for
\* either scope, two different adapters resolve different files, and in a
\* run no file is written by more than one client.
C10_DistinctFiles ==
  /\ \A g \in BOOLEAN :
       Cardinality({Resolve(get_config_path(c, g)) : c \in ModelClients})
         = Cardinality(ModelClients)
  /\ \A i, j \in Writes :
       log[i].client # log[j].client => log[i].path # log[j].path
\* a run over every adapter, outside the default environment, in which
\* each of them wrote its file
C10_Witness ==
  /\ pc = "done" /\ platform = "win32" /\ env.HOME = Unset /\ cwd = HomeDir
  /\ Len(results) = Len(ClientOrder)
  /\ \A i \in 1..Len(results) : results[i].success
  /\ Cardinality({log[j].path : j \in Writes}) = Len(ClientOrder)

\* the adapter of the current turn is between its call and its return
InAdapter == pc \in {"mkdir", "read", "merge", "write", "return", "catch"}

\* C11: the loop is strictly sequential: every file-system operation of a
\* turn happens when the results of all earlier turns, and no other, have
\* been pushed; the operations of the log are grouped by turn, in the order
\* of the list, each on behalf of the client of its turn, and the first
\* operation of a turn comes when the turn before it has its result; while
\* an adapter is in progress it is the one of the current turn, the only
\* one without a result.
C11_StrictlySequential ==
  /\ \A j \in 1..Len(log) :
       /\ log[j].turn = log[j].inv
       /\ log[j].turn <= Len(selected_clients)
       /\ log[j].client = Lower(selected_clients[log[j].turn])
  /\ \A j \in 1..(Len(log) - 1) :
       /\ log[j].turn <= log[j + 1].turn
       /\ log[j].turn < log[j + 1].turn => log[j].turn <= Len(results)
  /\ InAdapter =>
       /\ idx = Len(results) + 1
       /\ frame.name = selected_clients[idx]
       /\ log # <<>> => log[Len(log)].turn <= idx
\* the second adapter is at work, the first has saved its file and returned
C11_Witness ==
  /\ pc = "write" /\ idx = 2 /\ Len(results) = 1 /\ results[1].success
  /\ frame.client # Lower(results[1].client)
  /\ \E j, k \in 1..Len(log) :
       log[j].turn = 1 /\ log[j].op = "write" /\ log[k].turn = 2 /\ log[k].op = "read"

\* the operations of turn t in the log, and the text of the fully updated
\* document of a turn of client c that read the text file
TurnOps(t) == {j \in 1..Len(log) : log[j].turn = t}
IsWrite(j) == log[j].op \in {"write", "write-failed"}
Updated(c, file) ==
  LET r == read_config(c, file)
      u == Upsert(c, r.config, r.content, config)
  IN WriteData(c, IF Format(c) = "jsonc" THEN r.config ELSE u.val,
                  IF Format(c) = "jsonc" THEN u.val ELSE r.content)

\* C12: within one application the steps go load, transform, upsert, save:
\* a write to the file comes right after the read of the same file in the
\* same turn, it is handed the serialization of the document read with the
\* entry merged into it, and it is the last operation of its turn; and an
\* adapter about to write has just read and holds that document.  (The
\* history grows by one operation a step, so every write is the latest
\* operation of some state.)
C12_LoadMergeSave ==
  /\ \A k \in 1..Len(log) : IsWrite(k) =>
       /\ k > 1
       /\ log[k - 1].op = "read" /\ log[k - 1].turn = log[k].turn
       /\ log[k - 1].path = log[k].path
       /\ k < Len(log) => log[k + 1].turn > log[k].turn
  /\ (log # <<>> /\ IsWrite(Len(log))) =>
       Ok(log[Len(log)].data) = Updated(log[Len(log)].client, log[Len(log) - 1].data)
  /\ pc = "write" =>
       /\ log # <<>> /\ log[Len(log)].op = "read" /\ log[Len(log)].turn = idx
       /\ WriteData(frame.client, frame.mem, frame.content)
            = Updated(frame.client, log[Len(log)].data)
\* an application over an existing file has read it, merged and saved
C12_Witness ==
  /\ pc = "return"
  /\ \E j, k \in TurnOps(idx) :
       /\ j < k /\ log[j].op = "read" /\ Exists(log[j].data)
       /\ log[k].op = "write" /\ log[k].data # log[j].data
       /\ FileAt(log[k].path) = log[k].data

\* ------------------------------------------------------------------ C13
DirOps == {"exists", "mkdir", "mkdir-failed"}
Parent(segs) == SubSeq(segs, 1, Len(segs) - 1)
\* the operation just before the read of the turn of operation k (a read,
\* or the write that follows it) tests or creates the parent directory
DirChecked(k) ==
  LET r == IF log[k].op = "read" THEN k ELSE k - 1 IN
  /\ r > 1
  /\ log[r - 1].turn = log[k].turn
  /\ log[r - 1].op \in DirOps
  /\ log[r - 1].path = Parent(log[k].path)

\* C13: every adapter, in either scope, tests the parent directory of its
\* file (and creates it when absent) before it loads and saves the file.
C13_DirAlwaysChecked ==
  \A k \in 1..Len(log) : log[k].op \in {"read", "write", "write-failed"} => DirChecked(k)

\* C13, as the code has it: every adapter tests and creates the parent
\* directory before it loads the file, except claude code in project scope,
\* which touches no directory (the parent is the working directory); in every
\* case the parent directory exists when the file is loaded or saved.
C13_DirCheckedButClaudeCodeProject ==
  /\ \A k \in 1..Len(log) : log[k].op \in {"read", "write", "write-failed"} =>
       /\ DirChecked(k) <=> (log[k].client # "claude code" \/ is_global)
       /\ Parent(log[k].path) \in dirs
       /\ (log[k].client = "claude code" /\ ~is_global) => Parent(log[k].path) = cwd.segs
  /\ \A j \in 1..Len(log) : log[j].op \in DirOps =>
       /\ log[j].client # "claude code" \/ is_global
       /\ log[j].op = "mkdir" => log[j].path \in dirs

C13_Witness ==
  /\ ~is_global /\ pc = "return"
  /\ \E j, k \in TurnOps(idx) :
       /\ j < k /\ log[j].op = "mkdir" /\ log[k].op = "write"
       /\ log[j].path = Parent(log[k].path)
       /\ log[j].path \in dirs
  /\ \E i \in 1..Len(results) : results[i].success /\ Lower(results[i].client) = "claude code"

\* ------------------------------------------------------------------ C14
EnvKeys == {"env", "envs", "environment"}
HeaderKeys == {"headers", "http_headers"}
HasAny(entry, ks) == \E i \in 1..Len(entry.m) : entry.m[i].k \in ks
Transformed == transform_config(frame.client, config)

\* C14: for every adapter and every descriptor the transformed entry has
\* the env-vars field exactly when the descriptor is Local with a non-empty
\* env, the headers field exactly when it is Remote with non-empty headers,
\* and never a field holding an empty object.
C14_EnvHeadersIffNonEmpty ==
  pc \in {"write", "return"} =>
    /\ HasAny(Transformed, EnvKeys) <=> (config.type = "stdio" /\ Len(config.env) > 0)
    /\ HasAny(Transformed, HeaderKeys) <=> (config.type = "http" /\ Len(config.headers) > 0)
    /\ \A i \in 1..Len(Transformed.m) : Transformed.m[i].v # EmptyObj

\* ------------------------------------------------------------------ C15
VscodeEntry ==
  Obj(<<P("type", Str("stdio")), P("command", Str(config.command)),
        P("args", Arr([i \in 1..Len(config.args) |-> Str(config.args[i])]))>>
      \o (IF config.env = <<>> THEN <<>> ELSE <<P("env", Obj(config.env))>>))
VscodeDoc == JsonStringify(Obj(<<P("servers", Obj(<<P(config.name, VscodeEntry)>>))>>))
VscodeEarlier == Applied("vscode", Absent, Earlier(config.name))

\* C15: in global scope VS Code, given a Local descriptor and no file or an
\* empty one, saves the document {servers: {name: {type: "stdio", command,
\* args}}} with the args in their order and an env key only for a non-empty
\* env; given the file an earlier run saved for the same name with other
\* args, or the file it has just saved, it saves that same document: the
\* args are replaced under the one key.
C15_VscodeLocalEntry ==
  \A k \in 1..Len(log) :
    (/\ log[k].client = "vscode" /\ log[k].op = "write"
     /\ is_global /\ config.type = "stdio"
     /\ ReadOf(log[k].turn) \in {Absent, EmptyText, VscodeEarlier, VscodeDoc})
    => /\ log[k].data = VscodeDoc
       /\ FileAt(log[k].path) = VscodeDoc
       /\ log[k].path = Resolve(VscodePath(TRUE))

\* ------------------------------------------------------------------ C16
ProjectClients == {"claude code", "cursor", "windsurf", "vscode", "opencode", "continue"}
ProjectFile(c) ==
  CASE c = "claude code" -> <<".mcp.json">>
    [] c = "cursor" -> <<".cursor", "mcp.json">>
    [] c = "windsurf" -> <<".windsurf", "mcp.json">>
    [] c = "vscode" -> <<".vscode", "mcp.json">>
    [] c = "opencode" -> <<"opencode.json">>
    [] c = "continue" -> <<".continue", "config.yaml">>
IsPrefix(root, segs) == Len(root) <= Len(segs) /\ SubSeq(segs, 1, Len(root)) = root
\* the per-user directories: the home directory and the directories the
\* environment names
UserRoots ==
  {Resolve(os_homedir)}
    \cup {env[v].segs : v \in {w \in DOMAIN env : IsSet(env[w]) /\ env[w].abs}}
\* the variables the VS Code user directory is computed from are set
VscodeEnvSet ==
  IF platform = "win32" THEN IsSet(env.APPDATA)
  ELSE IsSet(env.HOME) \/ IsSet(env.USERPROFILE)

\* C16: in project scope every client with a project config writes the
\* file of that name under the working directory (for opencode, the .jsonc
\* variant when that is the file present); in global scope every client
\* writes below a per-user directory.
C16_ScopeSelectsFile ==
  \A k \in 1..Len(log) : log[k].op \in {"write", "write-failed"} =>
    /\ (~is_global /\ log[k].client \in ProjectClients) =>
         \/ log[k].path = cwd.segs \o ProjectFile(log[k].client)
         \/ /\ log[k].client = "opencode"
            /\ log[k].path = cwd.segs \o <<"opencode.jsonc">>
    /\ (is_global /\ (log[k].client = "vscode" => VscodeEnvSet)) =>
         \E root \in UserRoots : IsPrefix(root, log[k].path) /\ root # log[k].path

\* ------------------------------------------------------------------ C17
\* C17: the name of the descriptor handed to an adapter is never empty and
\* matches ^[A-Za-z0-9_-]+$, whether the flag or the prompt gave it, and
\* every saved document holds the entry under that name.
C17_NameInvariant ==
  /\ InAdapter => NameMatches(config.name)
  /\ \A k \in 1..Len(log) : log[k].op = "write" =>
       EntriesNamed(log[k].client, Loaded(log[k].client, log[k].data), config.name) = 1

\* ------------------------------------------------------------------ C18
\* C18: a run given --name, --type, --scope, --clients and --command (stdio)
\* or --url (http) never issues a prompt: it cannot be cancelled, and it
\* reaches the adapters of the clients named.
C18_NeverPrompts ==
  (FlagsComplete(argv) /\ "clients" \in argv.given) =>
    /\ prompts = <<>>
    /\ pc \notin {"prompt", "cancelled"}
    /\ pc \in {"loop", "report", "done"} =>
         selected_clients = SelectSeq(argv_clients, Registered)

\* ------------------------------------------------------------------ C19
\* the ids of --clients the registry knows in some letter case, each with
\* the id of the registry it stands for
IdPairs ==
  {<<"Cursor", "cursor">>, <<"CODEX", "codex">>, <<"Gemini", "gemini">>,
   <<"VSCode", "vscode">>, <<"Claude Code", "claude code">>}
    \cup {<<c, c>> : c \in clients}
KnownIds == {p[1] : p \in IdPairs}
Served(id) == (CHOOSE p \in IdPairs : p[1] = id)[2]
Known(raw) == SelectSeq(raw, LAMBDA id : id \in KnownIds)

\* C19: an id given in any letter case is served by the adapter of its
\* lower-cased form, on the file of that adapter, and is reported as it
\* was given; every id of the registry has an adapter, which is called, so
\* that a run that ends has a result for every known id, in order; an id
\* the registry does not know gets no result entry, no error and no file
\* operation.
C19_LookupCaseInsensitive ==
  /\ \A i \in 1..Len(selected_clients) : selected_clients[i] \in KnownIds
  /\ \A i \in 1..Len(results) :
       /\ results[i].client \in KnownIds
       /\ results[i].path = get_config_path(Served(results[i].client), is_global)
  /\ \A k \in 1..Len(log) :
       /\ log[k].turn \in 1..Len(selected_clients)
       /\ selected_clients[log[k].turn] \in KnownIds
       /\ log[k].client = Served(selected_clients[log[k].turn])
  /\ InAdapter => frame.client = Served(selected_clients[idx])
  /\ (pc \notin {"select", "prompt", "cancelled"} /\ Known(argv_clients) # <<>>) =>
       selected_clients = Known(argv_clients)
  /\ pc = "done" =>
       /\ Len(results) = Len(selected_clients)
       /\ \A i \in 1..Len(results) : results[i].client = selected_clients[i]

\* an unknown id and an id in capitals: one result, under the id as given,
\* on the file of the adapter of its lower-cased form
C19_Witness ==
  /\ pc = "done" /\ argv_clients = <<"nope", "Cursor">>
  /\ Len(results) = 1 /\ results[1].client = "Cursor" /\ results[1].success
  /\ Exists(FileAt(Resolve(CursorPath(is_global))))
  /\ \A k \in 1..Len(log) : log[k].client = "cursor"

\* ------------------------------------------------------------------ C20
\* the keys of the client's container as a text lists them
ContainerKeys(c, file) ==
  LET cont == IF Exists(file) THEN FindNode(file.root, <<ContainerKey(c)>>) ELSE NoRoot
      entry(m) == ~IsComment(m)
  IN IF cont.t = "obj" THEN Keys(SelectSeq(cont.m, entry)) ELSE <<>>
HasKey(ks, k) == \E i \in 1..Len(ks) : ks[i] = k
MapClients == {c \in ModelClients : ~IsList(c) /\ Format(c) \in {"json", "yaml"}}

\* C20: when a map-shaped JSON or YAML client saves a descriptor whose name
\* is not yet a key of the container it loaded, the saved container lists
\* the keys the file had, in the order the file had them, and then the new
\* name as its last key.
C20_NewKeyAppended ==
  \A k \in 1..Len(log) :
    (/\ log[k].op = "write" /\ log[k].client \in MapClients
     /\ GetProp(Loaded(log[k].client, ReadOf(log[k].turn)),
                ContainerKey(log[k].client)).t = "obj"
     /\ ~HasKey(ContainerKeys(log[k].client, ReadOf(log[k].turn)), config.name))
    => ContainerKeys(log[k].client, log[k].data)
         = Append(ContainerKeys(log[k].client, ReadOf(log[k].turn)), config.name)

\* ------------------------------------------------------------------ C21
UrlKeys == {"url", "serverUrl"}
\* the entry the two adapters are to store for a descriptor
CommandEntry ==
  Obj(<<P("command", Str(config.command)), P("args", StrArr(config.args))>>
      \o (IF config.env = <<>> THEN <<>> ELSE <<P("env", Obj(config.env))>>))
UrlEntry(urlKey, headersKey) ==
  Obj(<<P(urlKey, Str(config.url))>>
      \o (IF config.headers = <<>> THEN <<>> ELSE <<P(headersKey, Obj(config.headers))>>))

\* C21: the entry Codex and Windsurf hand to the merge is, for a Local
\* descriptor, {command, args} with the descriptor's command and args (and
\* env when non-empty) and no url or serverUrl field; only for a Remote
\* descriptor is it {url} with http_headers (Codex) or {serverUrl} with
\* headers (Windsurf).
C21_LocalCommandRemoteUrl ==
  (pc \in {"write", "return"} /\ frame.client \in {"codex", "windsurf"}) =>
    /\ config.type = "stdio" =>
         /\ Transformed = CommandEntry
         /\ ~HasAny(Transformed, UrlKeys)
    /\ config.type = "http" =>
         Transformed = IF frame.client = "codex" THEN UrlEntry("url", "http_headers")
                       ELSE UrlEntry("serverUrl", "headers")
    /\ HasAny(Transformed, UrlKeys) => config.type = "http"

\* ------------------------------------------------------------------ C22
\* the top-level keys of a text, in the order the text lists them
TopKeys(x) ==
  LET entry(m) == ~IsComment(m) IN
  IF x.root.t = "obj" THEN Keys(SelectSeq(x.root.m, entry)) ELSE <<>>
\* members by key and value, their layout aside
Plain(ms) == [i \in 1..Len(ms) |-> <<ms[i].k, ParseNode(ms[i].v)>>]
\* the entry OpenCode is to hold for a Local descriptor
OpencodeLocalEntry ==
  Obj(<<P("type", Str("local")),
        P("command", Arr(<<Str(config.command)>>
                           \o [i \in 1..Len(config.args) |-> Str(config.args[i])])),
        P("enabled", Bool(TRUE))>>
      \o (IF config.env = <<>> THEN <<>> ELSE <<P("environment", Obj(config.env))>>))
\* the save at position k of the history patched the text from in the order
\* $schema, mcp, entry; kept(key) tells whether the key counted as present
PatchedInOrder(k, from, kept(_)) ==
  LET to == log[k].data
      add(key) == IF HasKey(TopKeys(from), key) THEN <<>> ELSE <<key>>
      mcpOf(x) == FindNode(x.root, <<"mcp">>)
  IN /\ TopKeys(to) = TopKeys(from) \o add("$schema") \o add("mcp")
     /\ FindNode(to.root, <<"$schema">>)
          = IF kept("$schema") THEN FindNode(from.root, <<"$schema">>)
            ELSE StringifyNode(SchemaUrl)
     /\ mcpOf(to).t = "obj"
     /\ kept("mcp") =>
          /\ mcpOf(from).t = "obj"
          /\ Plain(MembersBut(mcpOf(to), {config.name}))
               = Plain(MembersBut(mcpOf(from), {config.name}))
     /\ ~kept("mcp") => MembersBut(mcpOf(to), {config.name}) = <<>>
     /\ config.type = "stdio" =>
          FindNode(to.root, <<"mcp", config.name>>) = StringifyNode(OpencodeLocalEntry)
OpencodeWrites == {k \in 1..Len(log) : log[k].op = "write" /\ log[k].client = "opencode"}
\* the text the edits of the save at k started on, the document parsed from it
EditedText(k) == read_config("opencode", ReadOf(log[k].turn)).content
EditedDoc(k) == Loaded("opencode", ReadOf(log[k].turn))

\* C22 (as stated): every OpenCode save holds the text it read with $schema
\* set first and only if the key was absent, then mcp set to {} only if the
\* key was absent (a $schema or mcp the text has is never overwritten),
\* then the entry at [mcp, name]; for a Local descriptor the entry is
\* {type: "local", command: [command, ...args], enabled: true}.
C22_SetOnlyIfAbsent ==
  \A k \in OpencodeWrites :
    LET kept(key) == HasKey(TopKeys(EditedText(k)), key) IN
    PatchedInOrder(k, EditedText(k), kept)

\* C22 (amended): the same, where a key counts as absent also when its
\* value is falsy (null, false, 0, ""): such a value is replaced.
C22_SetUnlessTruthy ==
  \A k \in OpencodeWrites :
    LET kept(key) == Truthy(GetProp(EditedDoc(k), key)) IN
    PatchedInOrder(k, EditedText(k), kept)

\* both keys added behind an unrelated one, and a later save over a text
\* that has them
C22_Witness ==
  \E k, l \in OpencodeWrites :
    /\ k < l /\ config.type = "stdio"
    /\ TopKeys(EditedText(k)) = <<"theme">>
    /\ TopKeys(log[k].data) = <<"theme", "$schema", "mcp">>
    /\ TopKeys(EditedText(l)) = <<"theme", "$schema", "mcp">>
    /\ TopKeys(log[l].data) = <<"theme", "$schema", "mcp">>

\* ------------------------------------------------------------------ C23
\* the base directory of OpenCode, and the two names a file can have in it
BaseDir ==
  IF ~is_global THEN cwd
  ELSE IF env.XDG_CONFIG_HOME \notin {Unset, EmptyPath}
  THEN [abs |-> env.XDG_CONFIG_HOME.abs,
        segs |-> env.XDG_CONFIG_HOME.segs \o <<"opencode">>]
  ELSE [abs |-> os_homedir.abs, segs |-> os_homedir.segs \o <<".config", "opencode">>]
InBase(ext) == [abs |-> BaseDir.abs, segs |-> BaseDir.segs \o <<ext>>]
HasJsonc == Resolve(InBase("opencode.jsonc")) \in DOMAIN files
OpencodeTurn == InAdapter /\ frame.client = "opencode"

\* C23: the path OpenCode resolves is opencode.jsonc in the base directory
\* (XDG_CONFIG_HOME or ~/.config, plus opencode, in global scope; the
\* working directory in project scope) exactly when that file exists
\* there, and opencode.json otherwise, whether or not opencode.json exists;
\* resolving the path changes no file and no directory and is no file
\* operation of the adapter.
C23_ExtensionProbe ==
  /\ [](OpencodeTurn =>
          frame.path = IF HasJsonc THEN InBase("opencode.jsonc") ELSE InBase("opencode.json"))
  /\ [][(pc = "loop" /\ pc' = "mkdir" /\ frame'.client = "opencode")
          => (files' = files /\ dirs' = dirs /\ log' = log)]_vars

\* both files stand in the base directory and opencode.jsonc is resolved
C23_Witness ==
  /\ pc = "mkdir" /\ frame.client = "opencode" /\ is_global
  /\ env.XDG_CONFIG_HOME = HomeDir
  /\ Resolve(InBase("opencode.json")) \in DOMAIN files
  /\ HasJsonc /\ frame.path = InBase("opencode.jsonc")

\* ------------------------------------------------------------------ C24
\* the entry of that name in the client's container (the first, in a list)
EntryNamed(c, doc, name) ==
  LET cont == GetProp(doc, ContainerKey(c)) IN
  IF IsList(c)
  THEN cont.a[CHOOSE i \in 1..Len(cont.a) :
                /\ CanRead(cont.a[i]) /\ GetProp(cont.a[i], "name") = Str(name)
                /\ \A j \in 1..(i - 1) :
                     ~(CanRead(cont.a[j]) /\ GetProp(cont.a[j], "name") = Str(name))]
  ELSE GetProp(cont, name)
\* an entry as a file holds it: a field without a value is not written
Written(entry) ==
  LET set(m) == m.v # Undef IN Obj(SelectSeq(entry.m, set))
\* the file was absent or is a document of the client's format
Parseable(c, file) == ~Exists(file) \/ ~SyntaxError(Format(c), file)

\* C24: whenever an adapter that found no file or a parseable one, of
\* whatever shape, has returned success, the file at the returned path,
\* loaded again, holds under the descriptor's name in the client's
\* container the transformed entry.
C24_SuccessMeansPersisted ==
  (/\ pc = "loop" /\ Len(results) >= 1 /\ results[Len(results)].success
   /\ Parseable(Lower(results[Len(results)].client), ReadOf(Len(results))))
    => LET c == Lower(results[Len(results)].client)
           doc == Loaded(c, TargetFile(Len(results)))
       IN /\ EntriesNamed(c, doc, config.name) >= 1
          /\ EntryNamed(c, doc, config.name) = Written(transform_config(c, config))

\* ------------------------------------------------------------------ C25
\* the clients without a project-level file, and the file each keeps for
\* the user
GlobalOnly == {"claude desktop", "goose", "codex"}
UserFile(c) == Resolve(get_config_path(c, TRUE))
Modifies(k) == log[k].op \in {"mkdir", "write", "write-failed"}

\* C25: in a run of project scope no adapter of a client without a
\* project-level file (Claude Desktop, Goose, Codex) writes the client's
\* file in the home directory, and none creates the directory of that file.
C25_ProjectLeavesUserFiles ==
  ~is_global =>
    \A k \in 1..Len(log) :
      (log[k].client \in GlobalOnly /\ Modifies(k)) =>
        /\ log[k].path # UserFile(log[k].client)
        /\ log[k].path # Parent(UserFile(log[k].client))

====
